---- MODULE Spec2Model ----
(***************************************************************************)
(* Shared browser lifecycle manager of open-webSearch                      *)
(* (src/engines/shared/browser.ts): executable lookup, launch, handshake,  *)
(* the process-wide session slot, and teardown on destroy / exit / signal. *)
(*                                                                         *)
(* Node runs the callers on one thread: every action below is one          *)
(* synchronous run of code between two awaits.                             *)
(***************************************************************************)
EXTENDS Integers, Sequences, FiniteSets, Bags, TLC

\* ------------------------------------------------------------------ bounds
NumCallers == 2          \* getSharedBrowser calls pending at one time
MaxLaunches == 2         \* profile directories the temp volume has room for
NumAuditCallers == 1     \* the same as NumCallers, while teardowns are recorded

LaunchIds == 1..MaxLaunches

\* a launch (and the session it may produce) is named by its ordinal;
\* 0 stands for null / undefined
NULL == 0
NoPid == 0
NoPath == <<>>

\* ------------------------------------------------------- getBrowserPath
\* A path is <<directory, application>>.
PF86Std == "C:\\Program Files (x86)"
PFStd == "C:\\Program Files"
EdgeExe == "\\Microsoft\\Edge\\Application\\msedge.exe"
ChromeExe == "\\Google\\Chrome\\Application\\chrome.exe"

HardcodedWindows ==
    << <<PF86Std, EdgeExe>>, <<PFStd, EdgeExe>>,
       <<PF86Std, ChromeExe>>, <<PFStd, ChromeExe>> >>

PosixPaths ==
    << <<"/usr/bin", "google-chrome">>, <<"/usr/bin", "chromium-browser">>,
       <<"/usr/bin", "chromium">>, <<"/usr/bin", "microsoft-edge">>,
       <<"/Applications", "Google Chrome.app/Contents/MacOS/Google Chrome">>,
       <<"/Applications", "Microsoft Edge.app/Contents/MacOS/Microsoft Edge">> >>

\* process.env: an unset (or empty) variable is ""
EnvPaths(e) ==
    (IF e.pf86 # "" THEN << <<e.pf86, EdgeExe>>, <<e.pf86, ChromeExe>> >> ELSE <<>>)
    \o (IF e.pf # "" THEN << <<e.pf, EdgeExe>>, <<e.pf, ChromeExe>> >> ELSE <<>>)
    \o (IF e.localAppData # "" THEN << <<e.localAppData, ChromeExe>> >> ELSE <<>>)

Candidates(e) == HardcodedWindows \o EnvPaths(e) \o PosixPaths

\* [...new Set(candidates)]: first occurrences, in order
RECURSIVE Unique(_)
Unique(seq) ==
    IF seq = <<>> THEN <<>>
    ELSE LET init == Unique(SubSeq(seq, 1, Len(seq) - 1))
             last == seq[Len(seq)]
         IN IF \E i \in 1..Len(init) : init[i] = last THEN init
            ELSE Append(init, last)

\* variant: the first candidate is taken without looking at the disk
FirstCandidate(seq, disk) == seq[1]

FirstExisting(seq, disk) ==
    IF \E i \in 1..Len(seq) : seq[i] \in disk
    THEN seq[CHOOSE i \in 1..Len(seq) :
                 seq[i] \in disk /\ \A j \in 1..(i - 1) : seq[j] \notin disk]
    ELSE NoPath

\* variant: the candidates are probed on every call
getBrowserPathReprobes(cache, e, disk) ==
    FirstExisting(Unique(Candidates(e)), disk)

\* the number of existsSync calls getBrowserPath makes
existsSyncCalls(cache, e, disk) ==
    LET unique == Unique(Candidates(e)) IN
    IF cache # NoPath THEN 0
    ELSE IF \E i \in 1..Len(unique) : unique[i] \in disk
         THEN CHOOSE i \in 1..Len(unique) :
                 unique[i] \in disk /\ \A j \in 1..(i - 1) : unique[j] \notin disk
         ELSE Len(unique)

\* the value getBrowserPath returns, NoPath when it throws
getBrowserPath(cache, e, disk) ==
    IF cache # NoPath THEN cache
    ELSE FirstExisting(Unique(Candidates(e)), disk)

\* ---------------------------------------------------------------- state
VARIABLES
    platform,           \* process.platform: "win32" or "posix"
    env,                \* process.env (the three variables read)
    onDisk,             \* paths for which existsSync is true
    cachedBrowserPath,  \* module variable, NoPath when null
    cachedSession,      \* module variable: launch id of the session, or NULL
    cleanupRegistered,  \* module variable
    listeners,          \* events that still carry the once-listener `cleanup`
    host,               \* "running" or "gone"
    nextLaunch,         \* launches started so far
    tempDir,            \* launch -> "none" | "exists" | "removed" | "stuck"
    proc,               \* launch -> "none" | "alive" | "dead"
    browserPid,         \* launch -> pid reported to the launcher, or NoPid
    conn,               \* launch -> "none" | "open" | "closed" (puppeteer)
    cleanups,           \* launch -> times cleanupSession ran on its session
    stored,             \* sessions ever assigned to cachedSession
    calls,              \* bag of pending getSharedBrowser calls
    last,               \* the getSharedBrowser promise settled by the latest step
    torn,               \* the teardown the latest step carried out
    trigger,            \* the teardown entry point the latest step ran
    audit,              \* whether teardowns are being recorded (never changes)
    searches,           \* bag of searches holding a handle from getSharedBrowser
    owed,               \* catch blocks of searches queued as microtasks
    issued,             \* what a search did in the latest step: the operation it
                        \* issued through a handle, or how it ended
    loopAt,             \* handshake loop of one launch: "delay" | "fetch" | "json" | "found" | "failed"
    attempt,            \* its loop counter i
    waited,             \* ms since the timer of the current wait was set
    probes,             \* requests to /json/version issued so far
    hung,               \* browsers that are alive and connected but answer nothing
    run,                \* the search followed from entry to end, one at a time
    bingWarmedUp,       \* module variable of the Bing engine
    warmedOn,           \* sessions on which the Bing warm-up navigation completed
    located,            \* what the latest getBrowserPath call by itself returned
    net,                \* findFreePort by itself: the loopback ports that are
                        \* bound, and the server of each call
    fn                  \* a function of the request path, applied to an input

vars == <<platform, env, onDisk, cachedBrowserPath, cachedSession,
          cleanupRegistered, listeners, host, nextLaunch, tempDir, proc,
          browserPid, conn, cleanups, stored, calls, last, torn, trigger, audit,
          searches, owed, issued, loopAt, attempt, waited, probes, hung,
          run, bingWarmedUp, warmedOn, located, net, fn>>

envVars == <<platform, env, onDisk>>
\* a pending call is known by the await it waits at and by the session it
\* waits for: the session whose version() it probes, or the launch it runs
Stages == {"probing", "port", "handshake", "connect"}
Call(a, s) == [at |-> a, s |-> s]
CallStates == [at : Stages, s : LaunchIds]
Pending == BagToSet(calls)
Without(k) == calls (-) SetToBag({k})
With(b, k) == b (+) SetToBag({k})

\* what a step settles: no promise, the promise of a getSharedBrowser call
\* resolves with the handle of session s (taken from the slot or just
\* launched), or it rejects with error e
Unsettled == [ret |-> NULL, err |-> "none", via |-> "none"]
Resolved(s, v) == [ret |-> s, err |-> "none", via |-> v]
Rejected(e) == [ret |-> NULL, err |-> e, via |-> "none"]

\* what a teardown did: the session (launch) it worked on, the calls it made
\* in the order it made them, each with its outcome ("failed": the call
\* threw and the throw was swallowed), and whether helper processes of the
\* browser were left running
NoTeardown == [s |-> NULL, steps |-> <<>>, orphans |-> FALSE]
Teardown(s, steps, o) == [s |-> s, steps |-> steps, orphans |-> o]
Outcome(threw) == IF threw THEN "failed" ELSE "ok"

\* the calls a teardown made, by name
Made(t, op) == {i \in 1..Len(t.steps) : t.steps[i][1] = op}
Did(t, op, outcome) == \E i \in 1..Len(t.steps) : t.steps[i] = <<op, outcome>>

\* torn and trigger are kept only while teardowns are being recorded
Logged(t) == IF audit THEN t ELSE NoTeardown
Entered(f) == trigger' = (IF audit THEN f ELSE "none") /\ UNCHANGED audit

\* a step that tears nothing down and enters no teardown function
Quiet == torn' = NoTeardown /\ Entered("none")

Events == {"exit", "SIGINT", "SIGTERM"}
Signals == {"SIGINT", "SIGTERM"}

NoEnv == [pf86 |-> "", pf |-> "", localAppData |-> ""]
WinEnv == [pf86 |-> PF86Std, pf |-> PFStd, localAppData |-> "C:\\Users\\u\\AppData\\Local"]

\* machines the runs start on: (platform, env, files on disk)
Machines ==
    { <<"posix", NoEnv, {}>>,
      <<"posix", NoEnv, {<<"/usr/bin", "chromium">>, <<"/usr/bin", "microsoft-edge">>}>>,
      <<"win32", WinEnv, {}>>,
      <<"win32", WinEnv, {<<PFStd, ChromeExe>>}>> }

\* the module as loaded, before any call
\* no operation issued through a handle
NoOp == [op |-> "none", h |-> NULL]
Op(o, h) == [op |-> o, h |-> h]
\* the search returned its results / rethrew the error it caught
Returned == [op |-> "return", h |-> NULL]
Threw == [op |-> "throw", h |-> NULL]

\* the handshake loop of one launch, followed step by step
loopVars == <<loopAt, attempt, waited, probes>>

\* one search of an engine, followed from its entry point to its end
engineVars == <<run, bingWarmedUp, warmedOn>>
\* functions followed by themselves
aloneVars == <<located, net, fn>>
apart == <<engineVars, aloneVars>>

\* findFreePort has not been called by itself
NoServers == [bound |-> {}, srv |-> <<>>, queue |-> <<>>]

\* no function is being applied
NoFn == [f |-> "none", in |-> <<>>, out |-> <<>>]

\* getBrowserPath has not been called by itself
NotCalled == [ret |-> NoPath, probes |-> 0, tick |-> FALSE]

\* no search is being followed
NoRun == [entry |-> "none", job |-> "none", at |-> "idle", h |-> NULL, err |-> "none"]

Boot(recording) ==
    /\ audit = recording
    /\ searches = EmptyBag
    /\ owed = 0
    /\ issued = NoOp
    /\ loopAt = "delay"
    /\ attempt = 0
    /\ waited = 0
    /\ probes = 0
    /\ hung = {}
    /\ run = NoRun
    /\ bingWarmedUp = FALSE
    /\ warmedOn = {}
    /\ located = NotCalled
    /\ net = NoServers
    /\ fn = NoFn
    /\ \E m \in Machines : platform = m[1] /\ env = m[2] /\ onDisk = m[3]
    /\ cachedBrowserPath = NoPath
    /\ cachedSession = NULL
    /\ cleanupRegistered = FALSE
    /\ listeners = {}
    /\ host = "running"
    /\ nextLaunch = 0
    /\ tempDir = [s \in LaunchIds |-> "none"]
    /\ proc = [s \in LaunchIds |-> "none"]
    /\ browserPid = [s \in LaunchIds |-> NoPid]
    /\ conn = [s \in LaunchIds |-> "none"]
    /\ cleanups = [s \in LaunchIds |-> 0]
    /\ stored = {}
    /\ calls = EmptyBag
    /\ last = Unsettled
    /\ torn = NoTeardown
    /\ trigger = "none"

Init == Boot(FALSE)

\* ------------------------------------------------- primitive side effects
\* process.kill(pid) inside try/catch: ends a live process, otherwise throws
\* (no such process) and is swallowed; skipped when the pid is falsy
KillProc(p, s) ==
    IF browserPid[s] # NoPid /\ p[s] = "alive" THEN [p EXCEPT ![s] = "dead"] ELSE p

\* rmSync(dir, {recursive, force}) inside try/catch: ok says whether the
\* file system let the removal through; a refused removal leaves the
\* directory on disk ("stuck") and the error is swallowed
OnDisk(d, s) == d[s] \in {"exists", "stuck"}

RmDir(d, s, ok) ==
    IF OnDisk(d, s) THEN [d EXCEPT ![s] = IF ok THEN "removed" ELSE "stuck"] ELSE d

\* browser.disconnect(); the connection of a killed browser closes with it
Disconnect(cn, s) == IF cn[s] = "open" THEN [cn EXCEPT ![s] = "closed"] ELSE cn

Bump(n) == IF n < 2 THEN n + 1 ELSE n

\* what the environment does to one teardown: rm, rmSync throws; dc,
\* disconnect throws; orphans, helper processes of the browser outlive the
\* end of the browser process. dc and orphans show in the record of the
\* teardown only, so they are told apart only while the record is kept
Recorded == IF audit THEN BOOLEAN ELSE {FALSE}

Faults == [rm : BOOLEAN, dc : Recorded, orphans : Recorded]

\* `if (pid) try { process.kill(pid) } catch {}` as a logged call
KillStep(s) ==
    IF browserPid[s] = NoPid THEN <<>>
    ELSE << <<"kill", Outcome(proc[s] # "alive")>> >>

\* process.kill(pid) names one process.  On win32 it ends that process at
\* once and its helper processes may live on; elsewhere it sends SIGTERM
\* and the browser shuts its helpers down on the way out
Orphans(s, f) ==
    platform = "win32" /\ browserPid[s] # NoPid /\ proc[s] = "alive" /\ f.orphans

\* variant: a kill that throws ends cleanupSession, the directory stays
cleanupSessionStopsAtKill(s, f) ==
    LET killThrows == browserPid[s] # NoPid /\ proc[s] # "alive" IN
    [conn |-> Disconnect(conn, s),
     proc |-> KillProc(proc, s),
     tempDir |-> IF killThrows THEN tempDir ELSE RmDir(tempDir, s, ~f.rm),
     cleanups |-> [cleanups EXCEPT ![s] = Bump(@)],
     torn |-> Teardown(s, << <<"disconnect", Outcome(f.dc)>> >> \o KillStep(s)
                             \o (IF killThrows THEN <<>>
                                 ELSE << <<"rm", Outcome(f.rm)>> >>),
                       Orphans(s, f))]

\* cleanupSession(session) for a non-null session: disconnect, kill, rmSync,
\* each in its own try/catch; the result is the state it leaves and the
\* record of what it did
cleanupSession(s, f) ==
    [conn |-> Disconnect(conn, s),
     proc |-> KillProc(proc, s),
     tempDir |-> RmDir(tempDir, s, ~f.rm),
     cleanups |-> [cleanups EXCEPT ![s] = Bump(@)],
     torn |-> Teardown(s, << <<"disconnect", Outcome(f.dc)>> >> \o KillStep(s)
                             \o << <<"rm", Outcome(f.rm)>> >>,
                       Orphans(s, f))]

\* variant: the slot is not cleared after cleanupSession
CleanupSlotKeepsSession ==
    IF cachedSession # NULL
    THEN \E f \in Faults :
            LET r == cleanupSession(cachedSession, f) IN
            /\ conn' = r.conn
            /\ proc' = r.proc
            /\ tempDir' = r.tempDir
            /\ cleanups' = r.cleanups
            /\ torn' = Logged(r.torn)
            /\ UNCHANGED cachedSession
    ELSE /\ torn' = NoTeardown
         /\ UNCHANGED <<conn, proc, tempDir, cleanups, cachedSession>>

\* variant: the kill is not guarded; when it throws, the throw leaves
\* cleanupSession and its caller, before rmSync and before the slot is cleared
CleanupSlotThrows ==
    IF cachedSession # NULL
    THEN \E f \in Faults :
            LET r == cleanupSession(cachedSession, f)
                threw == Did(r.torn, "kill", "failed") IN
            /\ conn' = r.conn
            /\ proc' = r.proc
            /\ tempDir' = IF threw THEN tempDir ELSE r.tempDir
            /\ cleanups' = r.cleanups
            /\ torn' = Logged(IF threw
                              THEN [r.torn EXCEPT !.steps = SubSeq(@, 1, 2)]
                              ELSE r.torn)
            /\ cachedSession' = IF threw THEN cachedSession ELSE NULL
    ELSE /\ torn' = NoTeardown
         /\ UNCHANGED <<conn, proc, tempDir, cleanups, cachedSession>>

\* if (cachedSession) { cleanupSession(cachedSession); cachedSession = null; }
\* the body of destroySharedBrowser and of the exit / signal listener
CleanupSlot ==
    IF cachedSession # NULL
    THEN \E f \in Faults :
            LET r == cleanupSession(cachedSession, f) IN
            /\ conn' = r.conn
            /\ proc' = r.proc
            /\ tempDir' = r.tempDir
            /\ cleanups' = r.cleanups
            /\ torn' = Logged(r.torn)
            /\ cachedSession' = NULL
    ELSE /\ torn' = NoTeardown
         /\ UNCHANGED <<conn, proc, tempDir, cleanups, cachedSession>>

\* --------------------------------------------------------- launchBrowser
\* variant: the profile directory is made before the executable is looked up
LaunchPrefixDirFirst(others, td) ==
    \E made \in BOOLEAN :
       LET path == getBrowserPath(cachedBrowserPath, env, onDisk) IN
       /\ made => nextLaunch < MaxLaunches
       /\ IF ~made
          THEN /\ tempDir' = td
               /\ calls' = others
               /\ last' = Rejected("MkdtempFailed")
               /\ UNCHANGED <<cachedBrowserPath, nextLaunch>>
          ELSE /\ nextLaunch' = nextLaunch + 1
               /\ tempDir' = [td EXCEPT ![nextLaunch + 1] = "exists"]
               /\ IF path = NoPath
                  THEN /\ calls' = others
                       /\ last' = Rejected("ExecutableNotFound")
                       /\ UNCHANGED cachedBrowserPath
                  ELSE /\ cachedBrowserPath' = path
                       /\ calls' = With(others, Call("port", nextLaunch + 1))
                       /\ last' = Unsettled

\* launchBrowser up to its first await: getBrowserPath, mkdtempSync, then
\* findFreePort is pending.  others are the calls pending beside this one,
\* td is tempDir as the code before the call left it.  Both synchronous
\* calls can throw, and a throw rejects the call; mkdtempSync can throw at
\* any time and does so once the volume is full.
LaunchPrefix(others, td) ==
    LET path == getBrowserPath(cachedBrowserPath, env, onDisk) IN
    IF path = NoPath
    THEN /\ calls' = others
         /\ last' = Rejected("ExecutableNotFound")
         /\ tempDir' = td
         /\ UNCHANGED <<cachedBrowserPath, nextLaunch>>
    ELSE \E made \in BOOLEAN :
         /\ made => nextLaunch < MaxLaunches
         /\ cachedBrowserPath' = path
         /\ IF made
            THEN /\ nextLaunch' = nextLaunch + 1
                 /\ tempDir' = [td EXCEPT ![nextLaunch + 1] = "exists"]
                 /\ calls' = With(others, Call("port", nextLaunch + 1))
                 /\ last' = Unsettled
            ELSE /\ tempDir' = td
                 /\ calls' = others
                 /\ last' = Rejected("MkdtempFailed")
                 /\ UNCHANGED nextLaunch

\* variant: the cached session is never consulted
SlotNeverHit == FALSE

\* `if (cachedSession)` at the top of getSharedBrowser
SlotHit == cachedSession # NULL

\* a caller enters getSharedBrowser and runs to its first await
GetStart ==
    /\ host = "running"
    /\ BagCardinality(calls) < NumCallers
    /\ IF SlotHit
       THEN /\ calls' = With(calls, Call("probing", cachedSession))
            /\ last' = Unsettled
            /\ UNCHANGED <<tempDir, cachedBrowserPath, nextLaunch>>
       ELSE LaunchPrefix(calls, tempDir)
    /\ Quiet
    /\ UNCHANGED <<envVars, cachedSession, cleanupRegistered, listeners, host,
                   proc, browserPid, conn, cleanups, stored>>

\* browser.version() resolves; `return cachedSession.browser` reads the slot
\* again, and a null slot throws inside the try, lands in the catch and
\* throws once more out of cleanupSession(null)
ProbeOk(k) ==
    /\ host = "running"
    /\ k.at = "probing"
    /\ conn[k.s] = "open"
    /\ IF cachedSession # NULL
       THEN last' = Resolved(cachedSession, "slot")
       ELSE last' = Rejected("TypeError")
    /\ calls' = Without(k)
    /\ Quiet
    /\ UNCHANGED <<envVars, cachedBrowserPath, cachedSession, cleanupRegistered,
                   listeners, host, nextLaunch, tempDir, proc, browserPid, conn,
                   cleanups, stored>>

\* browser.version() rejects: the catch block cleans whatever is in the slot
\* now, clears it and falls through to launchBrowser
ProbeFail(k) ==
    /\ host = "running"
    /\ k.at = "probing"
    /\ conn[k.s] = "closed"
    /\ IF cachedSession = NULL
       THEN /\ calls' = Without(k)
            /\ last' = Rejected("TypeError")
            /\ torn' = NoTeardown
            /\ UNCHANGED <<cachedSession, conn, proc, tempDir, cleanups,
                           cachedBrowserPath, nextLaunch>>
       ELSE \E f \in Faults :
            LET r == cleanupSession(cachedSession, f) IN
            /\ conn' = r.conn
            /\ proc' = r.proc
            /\ cleanups' = r.cleanups
            /\ torn' = Logged(r.torn)
            /\ cachedSession' = NULL
            /\ LaunchPrefix(Without(k), r.tempDir)
    /\ Entered("none")
    /\ UNCHANGED <<envVars, cleanupRegistered, listeners, host, browserPid,
                   stored>>

\* the operating system hands out process identifiers in increasing order
\* and does not wrap around within a run: the n-th process started gets the
\* n-th identifier
FreshPid(s) == s

\* findFreePort resolves; the browser is started (WMI on win32, detached
\* spawn elsewhere) and the handshake loop begins
PortOk(k) ==
    /\ host = "running"
    /\ k.at = "port"
    /\ \E started \in BOOLEAN :
          IF started
          THEN /\ proc' = [proc EXCEPT ![k.s] = "alive"]
               /\ browserPid' = [browserPid EXCEPT ![k.s] = FreshPid(k.s)]
               /\ calls' = With(Without(k), Call("handshake", k.s))
               /\ last' = Unsettled
               /\ torn' = NoTeardown
               /\ UNCHANGED tempDir
          ELSE IF platform = "win32"
          THEN \* execFileSync throws: remove the profile directory, rethrow
               \E f \in Faults :
               /\ tempDir' = RmDir(tempDir, k.s, ~f.rm)
               /\ torn' = Logged(Teardown(k.s, << <<"rm", Outcome(f.rm)>> >>, FALSE))
               /\ calls' = Without(k)
               /\ last' = Rejected("LaunchFailed")
               /\ UNCHANGED <<proc, browserPid>>
          ELSE \* spawn emits 'error' (ignored) and child.pid is undefined
               /\ calls' = With(Without(k), Call("handshake", k.s))
               /\ last' = Unsettled
               /\ torn' = NoTeardown
               /\ UNCHANGED <<proc, browserPid, tempDir>>
    /\ Entered("none")
    /\ UNCHANGED <<envVars, cachedBrowserPath, cachedSession, cleanupRegistered,
                   listeners, host, nextLaunch, conn, cleanups, stored>>

\* findFreePort rejects: launchBrowser rejects with that error
PortFail(k) ==
    /\ host = "running"
    /\ k.at = "port"
    /\ calls' = Without(k)
    /\ last' = Rejected("PortAllocationFailed")
    /\ Quiet
    /\ UNCHANGED <<envVars, cachedBrowserPath, cachedSession, cleanupRegistered,
                   listeners, host, nextLaunch, tempDir, proc, browserPid, conn,
                   cleanups, stored>>

\* variant: the failure exits remove the directory and leave the browser alone
AbortLaunchWithoutKill(k, e) ==
    \E f \in Faults :
    /\ tempDir' = RmDir(tempDir, k.s, ~f.rm)
    /\ torn' = Logged(Teardown(k.s, << <<"rm", Outcome(f.rm)>> >>, FALSE))
    /\ calls' = Without(k)
    /\ last' = Rejected(e)
    /\ UNCHANGED proc

\* `if (browserPid) try { process.kill } catch {}; try { rmSync } catch {}; throw`
\* of the two failure exits of launchBrowser after the browser was started
AbortLaunch(k, e) ==
    \E f \in Faults :
    /\ proc' = KillProc(proc, k.s)
    /\ tempDir' = RmDir(tempDir, k.s, ~f.rm)
    /\ torn' = Logged(Teardown(k.s, KillStep(k.s) \o << <<"rm", Outcome(f.rm)>> >>,
                                Orphans(k.s, f)))
    /\ calls' = Without(k)
    /\ last' = Rejected(e)

\* the polling loop on /json/version ran to its end: either some probe
\* within the budget carried webSocketDebuggerUrl (only a live browser
\* answers), or all probes were used up
Handshake(k) ==
    /\ host = "running"
    /\ k.at = "handshake"
    /\ \E found \in BOOLEAN :
          /\ found => proc[k.s] = "alive"
          /\ IF found
             THEN /\ calls' = With(Without(k), Call("connect", k.s))
                  /\ last' = Unsettled
                  /\ torn' = NoTeardown
                  /\ UNCHANGED <<proc, tempDir>>
             ELSE AbortLaunch(k, "HandshakeTimeout")
    /\ Entered("none")
    /\ UNCHANGED <<envVars, cachedBrowserPath, cachedSession, cleanupRegistered,
                   listeners, host, nextLaunch, browserPid, conn, cleanups,
                   stored>>

\* variant: the listeners are attached at every creation
RegisterCleanupEveryTime ==
    cleanupRegistered' = TRUE /\ listeners' = Events

\* process.once(...) for the three events, the first time only
RegisterCleanup ==
    IF ~cleanupRegistered
    THEN cleanupRegistered' = TRUE /\ listeners' = Events
    ELSE UNCHANGED <<cleanupRegistered, listeners>>

\* variant: a session found in the slot is cleaned before it is replaced
ConnectOkCleansDisplaced(k) ==
    /\ host = "running"
    /\ k.at = "connect"
    /\ proc[k.s] = "alive"
    /\ \E f \in Faults :
         LET r == IF cachedSession # NULL THEN cleanupSession(cachedSession, f)
                  ELSE [conn |-> conn, proc |-> proc, tempDir |-> tempDir,
                        cleanups |-> cleanups, torn |-> NoTeardown] IN
         /\ conn' = [r.conn EXCEPT ![k.s] = "open"]
         /\ proc' = r.proc
         /\ tempDir' = r.tempDir
         /\ cleanups' = r.cleanups
         /\ torn' = Logged(r.torn)
    /\ Entered("none")
    /\ cachedSession' = k.s
    /\ stored' = stored \cup {k.s}
    /\ RegisterCleanup
    /\ last' = Resolved(k.s, "launch")
    /\ calls' = Without(k)
    /\ UNCHANGED <<envVars, cachedBrowserPath, host, nextLaunch, browserPid>>

\* puppeteer.connect resolves: launchBrowser returns the session and
\* getSharedBrowser stores it, registers the listeners and returns its handle
ConnectOk(k) ==
    /\ host = "running"
    /\ k.at = "connect"
    /\ proc[k.s] = "alive"
    /\ conn' = [conn EXCEPT ![k.s] = "open"]
    /\ cachedSession' = k.s
    /\ stored' = stored \cup {k.s}
    /\ RegisterCleanup
    /\ last' = Resolved(k.s, "launch")
    /\ calls' = Without(k)
    /\ Quiet
    /\ UNCHANGED <<envVars, cachedBrowserPath, host, nextLaunch, tempDir, proc,
                   browserPid, cleanups>>

\* puppeteer.connect rejects
ConnectFail(k) ==
    /\ host = "running"
    /\ k.at = "connect"
    /\ AbortLaunch(k, "ConnectFailed")
    /\ Entered("none")
    /\ UNCHANGED <<envVars, cachedBrowserPath, cachedSession, cleanupRegistered,
                   listeners, host, nextLaunch, browserPid, conn, cleanups,
                   stored>>

\* ------------------------------------------------------------- teardown
\* the host process ends: its pending calls end with it
HostGone ==
    /\ host' = "gone"
    /\ calls' = EmptyBag
    /\ last' = Unsettled

\* variant: destroySharedBrowser cleans the session but leaves it in the slot
DestroyKeepsSession ==
    /\ host = "running"
    /\ CleanupSlotKeepsSession
    /\ Entered("destroySharedBrowser")
    /\ last' = Unsettled
    /\ UNCHANGED <<envVars, cachedBrowserPath, cleanupRegistered, listeners, host,
                   nextLaunch, browserPid, stored, calls>>

\* variant: destroySharedBrowser without the `if (cachedSession)`: with the
\* slot empty it tears down whatever browser the module has running
DestroySweeps ==
    /\ host = "running"
    /\ IF cachedSession = NULL /\ (\E s \in LaunchIds : proc[s] = "alive")
       THEN \E s \in {l \in LaunchIds : proc[l] = "alive"}, f \in Faults :
               LET r == cleanupSession(s, f) IN
               /\ conn' = r.conn
               /\ proc' = r.proc
               /\ tempDir' = r.tempDir
               /\ cleanups' = r.cleanups
               /\ torn' = Logged(r.torn)
               /\ UNCHANGED cachedSession
       ELSE CleanupSlot
    /\ Entered("destroySharedBrowser")
    /\ last' = Unsettled
    /\ UNCHANGED <<envVars, cachedBrowserPath, cleanupRegistered, listeners, host,
                   nextLaunch, browserPid, stored, calls>>

\* destroySharedBrowser()
Destroy ==
    /\ host = "running"
    /\ CleanupSlot
    /\ Entered("destroySharedBrowser")
    /\ last' = Unsettled
    /\ UNCHANGED <<envVars, cachedBrowserPath, cleanupRegistered, listeners, host,
                   nextLaunch, browserPid, stored, calls>>

\* SIGINT / SIGTERM is delivered.  With the once-listener still attached the
\* listener runs, is detached, and the host keeps running; without one the
\* default disposition ends the host at once and no 'exit' event is emitted.
Signal(sig) ==
    /\ host = "running"
    /\ IF sig \in listeners
       THEN /\ CleanupSlot
            /\ Entered(sig)
            /\ listeners' = listeners \ {sig}
            /\ last' = Unsettled
            /\ UNCHANGED <<host, calls>>
       ELSE /\ HostGone
            /\ Quiet
            /\ UNCHANGED <<conn, proc, tempDir, cleanups, cachedSession,
                           listeners>>
    /\ UNCHANGED <<envVars, cachedBrowserPath, cleanupRegistered, nextLaunch,
                   browserPid, stored>>

\* the host exits normally (process.exit or an empty event loop): 'exit' is
\* emitted, its listener runs synchronously, the host is gone
Exit ==
    /\ host = "running"
    /\ IF "exit" \in listeners
       THEN CleanupSlot /\ Entered("exit")
       ELSE Quiet /\ UNCHANGED <<conn, proc, tempDir, cleanups, cachedSession>>
    /\ listeners' = listeners \ {"exit"}
    /\ HostGone
    /\ UNCHANGED <<envVars, cachedBrowserPath, cleanupRegistered, nextLaunch,
                   browserPid, stored>>

\* ---------------------------------------------------------- environment
\* a browser process dies on its own; its control channel closes with it
\* (browsers are followed for as long as the host lives)
BrowserCrash(s) ==
    /\ host = "running"
    /\ proc[s] = "alive"
    /\ proc' = [proc EXCEPT ![s] = "dead"]
    /\ conn' = Disconnect(conn, s)
    /\ last' = Unsettled
    /\ Quiet
    /\ UNCHANGED <<envVars, cachedBrowserPath, cachedSession, cleanupRegistered,
                   listeners, host, nextLaunch, tempDir, browserPid, cleanups,
                   stored, calls>>

\* no search of the engines is under way
Still == UNCHANGED <<searches, owed, loopVars, hung, apart>> /\ issued' = NoOp

Next ==
    \/ GetStart /\ Still
    \/ \E k \in Pending : ProbeOk(k) /\ Still
    \/ \E k \in Pending : ProbeFail(k) /\ Still
    \/ \E k \in Pending : PortOk(k) /\ Still
    \/ \E k \in Pending : PortFail(k) /\ Still
    \/ \E k \in Pending : Handshake(k) /\ Still
    \/ \E k \in Pending : ConnectOk(k) /\ Still
    \/ \E k \in Pending : ConnectFail(k) /\ Still
    \/ Destroy /\ Still
    \/ \E sig \in Signals : Signal(sig) /\ Still
    \/ Exit /\ Still
    \/ \E s \in LaunchIds : BrowserCrash(s) /\ Still

Spec == Init /\ [][Next]_vars

\* ------------------------------------------------ teardowns on record
\* the same program with every teardown recorded in torn and trigger
AuditGetStart == BagCardinality(calls) < NumAuditCallers /\ GetStart

AuditNext ==
    \/ AuditGetStart /\ Still
    \/ \E k \in Pending : ProbeOk(k) /\ Still
    \/ \E k \in Pending : ProbeFail(k) /\ Still
    \/ \E k \in Pending : PortOk(k) /\ Still
    \/ \E k \in Pending : PortFail(k) /\ Still
    \/ \E k \in Pending : Handshake(k) /\ Still
    \/ \E k \in Pending : ConnectOk(k) /\ Still
    \/ \E k \in Pending : ConnectFail(k) /\ Still
    \/ Destroy /\ Still
    \/ \E sig \in Signals : Signal(sig) /\ Still
    \/ Exit /\ Still
    \/ \E s \in LaunchIds : BrowserCrash(s) /\ Still

AuditSpec == Boot(TRUE) /\ [][AuditNext]_vars

\* the errors launchBrowser rejects with
CreationErrors ==
    {"ExecutableNotFound", "MkdtempFailed", "PortAllocationFailed",
     "LaunchFailed", "HandshakeTimeout", "ConnectFailed"}

\* --------------------------------------------------- the engines' searches
\* searchBaidu / searchBing: every getSharedBrowser call is made by a search,
\* which then works through the handle it was given:
\*   newPage, goto, a 1000 ms sleep, content, close, and round again or return;
\* any rejection lands in `catch (err) { destroySharedBrowser(); throw err; }`
NumSearches == 2    \* searches under way at one time

SearchStages == {"newPage", "goto", "sleep", "content", "close"}
Search(a, h) == [at |-> a, h |-> h]
Running == BagToSet(searches)
SearchesLeft(x) == searches (-) SetToBag({x})

\* the search that awaited the getSharedBrowser promise settled in this step:
\* resolved, it issues newPage through the handle in the same run; rejected,
\* its catch block is queued.  A call that starts probing issues version()
\* through the session in the slot
Handed ==
    LET got == last'.err = "none" /\ last'.via # "none" IN
    /\ owed' = IF last'.err # "none" THEN owed + 1 ELSE owed
    /\ searches' = IF got THEN With(searches, Search("newPage", last'.ret))
                          ELSE searches
    /\ issued' = IF got THEN Op("newPage", last'.ret)
                 ELSE IF \E s \in LaunchIds : calls' = With(calls, Call("probing", s))
                 THEN Op("version", cachedSession)
                 ELSE NoOp
    /\ UNCHANGED <<loopVars, hung, apart>>

\* a search is entered and calls getSharedBrowser
SearchGetStart ==
    /\ owed = 0
    /\ BagCardinality(calls) + BagCardinality(searches) < NumSearches
    /\ GetStart
    /\ Handed

\* the queued catch block runs before anything else: destroySharedBrowser()
Caught ==
    /\ owed > 0
    /\ Destroy
    /\ owed' = owed - 1
    /\ issued' = Threw
    /\ UNCHANGED <<searches, loopVars, hung, apart>>

\* the operation (or the sleep) search x waits for completes, and the search
\* issues the next one through the same handle; after close it either goes
\* round the loop or returns its results
OpOk(x) ==
    /\ host = "running"
    /\ owed = 0
    /\ x.at = "sleep" \/ conn[x.h] = "open"
    /\ \/ /\ x.at \in {"newPage", "sleep", "content"}
          /\ LET n == CASE x.at = "newPage" -> "goto"
                        [] x.at = "sleep" -> "content"
                        [] x.at = "content" -> "close" IN
             /\ searches' = With(SearchesLeft(x), Search(n, x.h))
             /\ issued' = Op(n, x.h)
       \/ /\ x.at = "goto"
          /\ searches' = With(SearchesLeft(x), Search("sleep", x.h))
          /\ issued' = NoOp
       \/ /\ x.at = "close"
          /\ \E more \in BOOLEAN :
                IF more
                THEN /\ searches' = With(SearchesLeft(x), Search("newPage", x.h))
                     /\ issued' = Op("newPage", x.h)
                ELSE /\ searches' = SearchesLeft(x)
                     /\ issued' = Returned
    /\ last' = Unsettled
    /\ Quiet
    /\ UNCHANGED <<envVars, cachedBrowserPath, cachedSession, cleanupRegistered,
                   listeners, host, nextLaunch, tempDir, proc, browserPid, conn,
                   cleanups, stored, calls, owed, loopVars, hung, apart>>

\* the operation search x waits for rejects: the connection of its handle is
\* closed, or the navigation ran into its 15000 ms timeout; the catch block
\* calls destroySharedBrowser and the search rejects
OpFails(x) ==
    /\ host = "running"
    /\ owed = 0
    /\ x.at # "sleep"
    /\ conn[x.h] = "closed" \/ x.at = "goto"
    /\ CleanupSlot
    /\ Entered("destroySharedBrowser")
    /\ searches' = SearchesLeft(x)
    /\ issued' = Threw
    /\ last' = Unsettled
    /\ UNCHANGED <<envVars, cachedBrowserPath, cleanupRegistered, listeners, host,
                   nextLaunch, browserPid, stored, calls, owed, loopVars,
                   hung, apart>>

SearchNext ==
    \/ SearchGetStart
    \/ \E k \in Pending : owed = 0 /\ ProbeOk(k) /\ Handed
    \/ \E k \in Pending : owed = 0 /\ ProbeFail(k) /\ Handed
    \/ \E k \in Pending : owed = 0 /\ PortOk(k) /\ Handed
    \/ \E k \in Pending : owed = 0 /\ PortFail(k) /\ Handed
    \/ \E k \in Pending : owed = 0 /\ Handshake(k) /\ Handed
    \/ \E k \in Pending : owed = 0 /\ ConnectOk(k) /\ Handed
    \/ \E k \in Pending : owed = 0 /\ ConnectFail(k) /\ Handed
    \/ Caught
    \/ \E x \in Running : OpOk(x)
    \/ \E x \in Running : OpFails(x)
    \/ \E s \in LaunchIds : owed = 0 /\ BrowserCrash(s) /\ Still

SearchSpec == Init /\ [][SearchNext]_vars

\* ------------------------------------------- one search, from entry to end
\* searchBaidu, searchBing (with warmUpBingSession) and the site searches
\* searchLinuxDo / searchZhiHu built on searchBing, called one at a time.
\* A search awaits getSharedBrowser ("get"), then newPage, goto, a sleep,
\* content and close on the handle; the Bing warm-up is newPage, goto, sleep,
\* close in a finally block, followed by a second getSharedBrowser
Entries == {"searchBaidu", "searchBing", "searchLinuxDo", "searchZhiHu"}
UsesBing(e) == e # "searchBaidu"
Wrapped(e) == e \in {"searchLinuxDo", "searchZhiHu"}
Over == {"idle", "returned", "threw"}

Run(e, j) == [entry |-> e, job |-> j, at |-> "get", h |-> NULL, err |-> "none"]

\* the search returns its results
Return(r) == [r EXCEPT !.at = "returned", !.h = NULL]

\* `throw err` in the catch block of searchBaidu / searchBing; the site
\* searches catch that error in turn, log it and return []
Rethrow(r, e) ==
    IF Wrapped(r.entry)
    THEN [r EXCEPT !.at = "returned", !.h = NULL, !.err = e]
    ELSE [r EXCEPT !.at = "threw", !.h = NULL, !.err = e]

\* `bingWarmedUp = false` in the catch block of searchBing
FlagAfterCatch(r) ==
    IF UsesBing(r.entry) THEN bingWarmedUp' = FALSE ELSE UNCHANGED bingWarmedUp

\* searches of the other layers are not under way
Alone == UNCHANGED <<searches, loopVars, hung, aloneVars>> /\ issued' = NoOp

\* the getSharedBrowser promise awaited by search r settled in this step:
\* resolved, newPage is issued on the handle; rejected, the catch is queued
Got(r) ==
    /\ owed' = IF last'.err # "none" THEN owed + 1 ELSE owed
    /\ run' = IF last'.err = "none" /\ last'.via # "none"
              THEN [r EXCEPT !.at = "newPage", !.h = last'.ret]
              ELSE r
    /\ Alone

\* an engine is called; searchBing first runs warmUpBingSession, which
\* returns at once when bingWarmedUp is set
Enter(e) ==
    /\ run.at \in Over
    /\ calls = EmptyBag
    /\ owed = 0
    /\ GetStart
    /\ Got(Run(e, IF UsesBing(e) /\ ~bingWarmedUp THEN "warm" ELSE "main"))
    /\ UNCHANGED <<bingWarmedUp, warmedOn>>

\* a continuation of the pending getSharedBrowser call
Acquire ==
    /\ owed = 0
    /\ \E k \in Pending :
          \/ ProbeOk(k)
          \/ ProbeFail(k)
          \/ PortOk(k)
          \/ PortFail(k)
          \/ Handshake(k)
          \/ ConnectOk(k)
          \/ ConnectFail(k)
    /\ Got(run)
    /\ UNCHANGED <<bingWarmedUp, warmedOn>>

\* getSharedBrowser rejected: catch (err) { destroySharedBrowser(); throw err; }
AcquireFailed ==
    /\ owed > 0
    /\ Destroy
    /\ owed' = owed - 1
    /\ run' = Rethrow(run, last.err)
    /\ FlagAfterCatch(run)
    /\ UNCHANGED warmedOn
    /\ Alone

\* nothing of the shared-browser module moves
Idle ==
    /\ last' = Unsettled
    /\ Quiet
    /\ UNCHANGED <<envVars, cachedBrowserPath, cachedSession, cleanupRegistered,
                   listeners, host, nextLaunch, tempDir, proc, browserPid, conn,
                   cleanups, stored, calls, owed>>

\* the operation (or the sleep) the search waits for completes and the next
\* one is issued on the same handle
Proceed ==
    /\ host = "running"
    /\ owed = 0
    /\ run.at \in {"newPage", "goto", "sleep", "content"}
    /\ run.at = "sleep" \/ conn[run.h] = "open"
    /\ LET n == CASE run.at = "newPage" -> "goto"
                  [] run.at = "goto" -> "sleep"
                  [] run.at = "sleep" /\ run.job = "warm" -> "close"
                  [] run.at = "sleep" /\ run.job = "main" -> "content"
                  [] run.at = "content" -> "close" IN
       run' = [run EXCEPT !.at = n]
    /\ IF run.at = "sleep" /\ run.job = "warm"
       THEN bingWarmedUp' = TRUE /\ warmedOn' = warmedOn \cup {run.h}
       ELSE UNCHANGED <<bingWarmedUp, warmedOn>>
    /\ Idle
    /\ Alone

\* page.close() of a result page resolves: the page is parsed and the search
\* goes round the loop or returns
Closed ==
    /\ host = "running"
    /\ owed = 0
    /\ run.at = "close" /\ run.job = "main"
    /\ conn[run.h] = "open"
    /\ \E more \in BOOLEAN :
          run' = IF more THEN [run EXCEPT !.at = "newPage"] ELSE Return(run)
    /\ UNCHANGED <<bingWarmedUp, warmedOn>>
    /\ Idle
    /\ Alone

\* page.close() of the warm-up page resolves: warmUpBingSession returns and
\* searchBing calls getSharedBrowser again
Warmed ==
    /\ owed = 0
    /\ run.at = "close" /\ run.job = "warm"
    /\ conn[run.h] = "open"
    /\ GetStart
    /\ Got([run EXCEPT !.job = "main", !.at = "get", !.h = NULL])
    /\ UNCHANGED <<bingWarmedUp, warmedOn>>

\* the warm-up navigation rejects: the finally block awaits page.close()
\* before the error travels on to the catch block of searchBing
WarmUpFails ==
    /\ host = "running"
    /\ owed = 0
    /\ run.job = "warm" /\ run.at = "goto"
    /\ run' = [run EXCEPT !.at = "finally"]
    /\ UNCHANGED <<bingWarmedUp, warmedOn>>
    /\ Idle
    /\ Alone

\* variant: the catch block rethrows without destroySharedBrowser()
FailsKeepsSession ==
    /\ host = "running"
    /\ owed = 0
    /\ \/ /\ run.at \in {"newPage", "content", "close"}
          /\ conn[run.h] = "closed"
       \/ run.at = "goto" /\ run.job = "main"
       \/ run.at = "finally"
    /\ run' = Rethrow(run, "OperationFailed")
    /\ FlagAfterCatch(run)
    /\ UNCHANGED warmedOn
    /\ Idle
    /\ Alone

\* an awaited operation rejects (connection closed, or the 15000 ms
\* navigation timeout) and the error reaches the catch block:
\* destroySharedBrowser(), throw
Fails ==
    /\ host = "running"
    /\ owed = 0
    /\ \/ /\ run.at \in {"newPage", "content", "close"}
          /\ conn[run.h] = "closed"
       \/ run.at = "goto" /\ run.job = "main"
       \/ run.at = "finally"
    /\ CleanupSlot
    /\ Entered("destroySharedBrowser")
    /\ last' = Unsettled
    /\ run' = Rethrow(run, "OperationFailed")
    /\ FlagAfterCatch(run)
    /\ UNCHANGED <<envVars, cachedBrowserPath, cleanupRegistered, listeners, host,
                   nextLaunch, browserPid, stored, calls, owed, warmedOn>>
    /\ Alone

EngineNext ==
    \/ \E e \in Entries : Enter(e)
    \/ Acquire
    \/ AcquireFailed
    \/ Proceed
    \/ Closed
    \/ Warmed
    \/ WarmUpFails
    \/ Fails
    \/ \E s \in LaunchIds : owed = 0 /\ BrowserCrash(s) /\ Alone
                               /\ UNCHANGED <<owed, engineVars>>

EngineSpec == Init /\ [][EngineNext]_vars

\* ------------------------------------------- getBrowserPath over time
\* getBrowserPath called again and again while browsers are installed and
\* removed on the machine
Installable ==
    { <<"/usr/bin", "chromium">>, <<"/usr/bin", "microsoft-edge">>,
      <<PFStd, ChromeExe>>, <<PF86Std, EdgeExe>> }

\* everything but the files, the cached path and the result of the call
Rest ==
    <<platform, env, cachedSession, cleanupRegistered, listeners, host,
      nextLaunch, tempDir, proc, browserPid, conn, cleanups, stored, calls,
      last, torn, trigger, audit, searches, owed, issued, loopVars, hung,
      engineVars>>

PathCall ==
    LET p == getBrowserPath(cachedBrowserPath, env, onDisk) IN
    /\ located' = [ret |-> p,
                 probes |-> existsSyncCalls(cachedBrowserPath, env, onDisk),
                 tick |-> ~located.tick]
    /\ cachedBrowserPath' = IF p # NoPath THEN p ELSE cachedBrowserPath
    /\ UNCHANGED <<onDisk, Rest, net, fn>>

Installed(p) ==
    /\ p \notin onDisk
    /\ onDisk' = onDisk \cup {p}
    /\ UNCHANGED <<cachedBrowserPath, located, Rest, net, fn>>

Removed(p) ==
    /\ p \in onDisk
    /\ onDisk' = onDisk \ {p}
    /\ UNCHANGED <<cachedBrowserPath, located, Rest, net, fn>>

PathNext ==
    \/ PathCall
    \/ \E p \in Installable : Installed(p)
    \/ \E p \in Installable : Removed(p)

PathSpec == Init /\ [][PathNext]_vars

\* ------------------------------------------------- findFreePort by itself
\* findFreePort called NumAllocations times in immediate succession: each
\* call is made in the same turn as the one before, or as soon as that one
\* has settled.  The server of a call is "listen" (listen(0, '127.0.0.1')
\* issued), "bound" (the system chose a port and bound it; the listening
\* callback is queued), "closing" (the callback read addr.port and called
\* srv.close), and in the end "resolved" with the port or "rejected".  The
\* system chooses any loopback port that is not bound; the callbacks run in
\* the order in which they were queued
NumPorts == 3           \* ports of the ephemeral range
NumAllocations == 3     \* findFreePort calls followed

Ports == 1..NumPorts
Server(a, p) == [at |-> a, port |-> p]
Settling == {"resolved", "rejected"}

\* the callback of call c is the next to run; afterwards the next callback
\* of c, if there is one, is at the end of the queue
Runs(c) == net.queue # <<>> /\ Head(net.queue) = c
Requeued(c) == Append(Tail(net.queue), c)

Allocate ==
    /\ Len(net.srv) < NumAllocations
    /\ IF net.srv = <<>> THEN TRUE
       ELSE net.srv[Len(net.srv)].at \in Settling \cup {"listen"}
    /\ net' = [net EXCEPT !.srv = Append(@, Server("listen", 0)),
                          !.queue = Append(@, Len(net.srv) + 1)]

Bind(c) ==
    /\ Runs(c)
    /\ net.srv[c].at = "listen"
    /\ \E p \in Ports \ net.bound :
          net' = [net EXCEPT !.bound = @ \cup {p}, !.srv[c] = Server("bound", p),
                            !.queue = Requeued(c)]

\* the server emits 'error' (no port or no descriptor left): reject
BindFails(c) ==
    /\ Runs(c)
    /\ net.srv[c].at = "listen"
    /\ net' = [net EXCEPT !.srv[c] = Server("rejected", 0), !.queue = Tail(@)]

\* the listening callback: port = addr.port; srv.close(() => resolve(port))
\* releases the port
Listening(c) ==
    /\ Runs(c)
    /\ net.srv[c].at = "bound"
    /\ net' = [net EXCEPT !.bound = @ \ {net.srv[c].port},
                          !.srv[c] = Server("closing", net.srv[c].port),
                          !.queue = Requeued(c)]

\* the close callback: resolve(port)
ServerClosed(c) ==
    /\ Runs(c)
    /\ net.srv[c].at = "closing"
    /\ net' = [net EXCEPT !.srv[c] = Server("resolved", net.srv[c].port),
                          !.queue = Tail(@)]

PortOnly == UNCHANGED <<onDisk, cachedBrowserPath, located, Rest, fn>>

PortNext ==
    \/ Allocate /\ PortOnly
    \/ \E c \in 1..Len(net.srv) : Bind(c) /\ PortOnly
    \/ \E c \in 1..Len(net.srv) : BindFails(c) /\ PortOnly
    \/ \E c \in 1..Len(net.srv) : Listening(c) /\ PortOnly
    \/ \E c \in 1..Len(net.srv) : ServerClosed(c) /\ PortOnly

PortSpec == Init /\ [][PortNext]_vars

\* ----------------------------------------------------- the pagination loops
\* searchBaidu (baidu.ts), searchBing (part_004 134-192) and the searchBing
\* that follows the next-page link (part_004 53-85), reduced to what decides
\* how long they run and how much they return: each round one result page
\* arrives with some number of parsed results; a Baidu page may be the
\* security-verification page, a Bing page may lack the next-page link.
\* A result is <<pn, i>>: the i-th result of the page requested with pn
MaxLimit == 3       \* largest limit asked for
MaxPerPage == 2     \* most results parsed out of one page

Pagers == {"searchBaidu", "searchBing", "searchBing (next link)"}
ByLink(e) == e = "searchBing (next link)"
PnStep(e) == IF e = "searchBaidu" THEN 10 ELSE 1

Min(a, b) == IF a < b THEN a ELSE b

\* Array.prototype.slice(from, to) for 0 <= from, 0 <= to
slice(seq, from, to) == SubSeq(seq, from + 1, Min(to, Len(seq)))

\* the results parsed out of a page
Parsed(pn, n) == [i \in 1..n |-> <<pn, i>>]

Page(n, verify, next) == [n |-> n, verify |-> verify, next |-> next]
NoPage == Page(0, FALSE, FALSE)
Pages(e) ==
    { Page(n, v, x) : n \in 0..MaxPerPage,
                      v \in IF e = "searchBaidu" THEN BOOLEAN ELSE {FALSE},
                      x \in IF ByLink(e) THEN BOOLEAN ELSE {TRUE} }

\* the `break`s: the security-verification title, no result on the page
Breaks(e, pg) == pg.verify \/ pg.n = 0

Paging(a, all, pn, pg, ret) ==
    [at |-> a, allResults |-> all, pn |-> pn, page |-> pg, ret |-> ret]

Paged == fn.f \in Pagers
PagingOnly ==
    UNCHANGED <<onDisk, cachedBrowserPath, located, net, Rest>>

\* the search is called: allResults = [], pn = 0
SearchCalled(e, limit) ==
    /\ fn.f = "none" \/ (Paged /\ fn.out.at \in {"returned", "threw"})
    /\ fn' = [f |-> e, in |-> limit,
              out |-> Paging(IF ByLink(e) THEN "first" ELSE "loop",
                             <<>>, 0, NoPage, <<>>)]
    /\ PagingOnly

\* what follows the last await of a round: with allResults as it is now,
\* either the while condition holds (and, where the next-page link is
\* followed, the page has one) and the next page is requested, or
\* allResults.slice(0, limit) is returned
Onward(all, pn, pg, stop) ==
    fn' = [fn EXCEPT !.out =
              IF ~stop /\ Len(all) < fn.in /\ pg.next
              THEN Paging("loop", all, pn + PnStep(fn.f), pg, <<>>)
              ELSE Paging("returned", all, pn, pg, slice(all, 0, fn.in))]

\* one round of while (allResults.length < limit): the page requested (by
\* newPage and goto, or by a click on the link) arrives and is parsed
PageArrives(pg) ==
    /\ Paged
    /\ fn.out.at = "loop"
    /\ fn.out.pn < PnStep(fn.f) * (MaxLimit + 1)
    /\ Onward(IF pg.verify THEN fn.out.allResults
              ELSE fn.out.allResults \o Parsed(fn.out.pn, pg.n),
              fn.out.pn, pg, Breaks(fn.f, pg))
    /\ PagingOnly

\* the first page of the searchBing that follows the next-page link, parsed
\* before the loop
FirstPage(pg) ==
    /\ Paged /\ ByLink(fn.f)
    /\ fn.out.at = "first"
    /\ Onward(Parsed(0, pg.n), 0, pg, FALSE)
    /\ PagingOnly

\* an awaited operation of the round rejects
PageFails ==
    /\ Paged
    /\ fn.out.at \in {"first", "loop"}
    /\ fn' = [fn EXCEPT !.out.at = "threw"]
    /\ PagingOnly

Round ==
    \/ \E pg \in Pages(fn.f) : PageArrives(pg)
    \/ \E pg \in Pages(fn.f) : FirstPage(pg)
    \/ PageFails

PagingNext ==
    \/ \E e \in Pagers, limit \in 1..MaxLimit : SearchCalled(e, limit)
    \/ \E pg \in Pages(fn.f) : PageArrives(pg)
    \/ \E pg \in Pages(fn.f) : FirstPage(pg)
    \/ PageFails

\* every awaited page operation settles: the navigations carry a 15000 ms
\* timeout, the sleeps are timers
PagingSpec == Init /\ [][PagingNext]_vars /\ WF_vars(Round)

\* ------------------------------------------------ the tools' own functions
\* Functions of the request path that touch no browser, each applied to one
\* input at a time: the function is called (fn holds its input and what it
\* gave), then the caller takes the result.  A string is the sequence of
\* its characters
FnOnly == UNCHANGED <<onDisk, cachedBrowserPath, located, net, Rest>>

\* the caller has taken the result
Taken ==
    /\ fn.f \notin Pagers \cup {"none"}
    /\ fn.f \in {"fetchLinuxDoArticle", "searchLinuxDo", "searchZhiHu"}
          => fn.out.at # "pending"
    /\ fn' = NoFn
    /\ FnOnly

\* -- enginesSchema: z.array(z.string()).min(1).default(['bing']).transform
UpperCase == <<"A", "B", "C", "D", "E", "F", "G", "H", "I", "J", "K", "L", "M", "N", "O", "P", "Q", "R", "S", "T", "U", "V", "W", "X", "Y", "Z">>
LowerCase == <<"a", "b", "c", "d", "e", "f", "g", "h", "i", "j", "k", "l", "m", "n", "o", "p", "q", "r", "s", "t", "u", "v", "w", "x", "y", "z">>

\* variant: the names are compared as they were written
sameCase(str) == str

\* String.prototype.toLowerCase
toLowerCase(str) ==
    [i \in 1..Len(str) |->
        IF \E j \in 1..Len(UpperCase) : UpperCase[j] = str[i]
        THEN LowerCase[CHOOSE j \in 1..Len(UpperCase) : UpperCase[j] = str[i]]
        ELSE str[i]]

\* Array.prototype.includes
includes(array, x) == \E i \in 1..Len(array) : array[i] = x

SUPPORTED_ENGINES ==
    << <<"b", "a", "i", "d", "u">>,
       <<"b", "i", "n", "g">>,
       <<"l", "i", "n", "u", "x", "d", "o">>,
       <<"c", "s", "d", "n">>,
       <<"d", "u", "c", "k", "d", "u", "c", "k", "g", "o">>,
       <<"e", "x", "a">>,
       <<"b", "r", "a", "v", "e">>,
       <<"j", "u", "e", "j", "i", "n">> >>

ParseOk(v) == [ok |-> TRUE, value |-> v, error |-> "none"]
ParseError(e) == [ok |-> FALSE, value |-> <<>>, error |-> e]

\* the argument as the client sent it: left out, or a list of names
Omitted == [given |-> FALSE, list |-> <<>>]
Given(list) == [given |-> TRUE, list |-> list]

enginesSchema(input) ==
    LET requestedEngines == IF input.given THEN input.list ELSE << <<"b", "i", "n", "g">> >>
        allowed == SUPPORTED_ENGINES
        normalized == [i \in 1..Len(requestedEngines) |-> toLowerCase(requestedEngines[i])]
        valid == SelectSeq(normalized, LAMBDA e : includes(allowed, e))
    IN IF Len(requestedEngines) < 1 THEN ParseError("too_small")
       ELSE IF Len(valid) = 0 THEN ParseError("No valid engine found")
       ELSE ParseOk(valid)

MaxEngines == 3     \* longest list of names in a request

\* names a client may send: bing, Bing, EXA, ask, and exa after a blank
RequestNames ==
    { <<"b", "i", "n", "g">>, <<"B", "i", "n", "g">>, <<"E", "X", "A">>,
      <<"a", "s", "k">>, <<" ", "e", "x", "a">> }

\* the lists of at most n elements of S
Lists(S, n) == UNION { [1..k -> S] : k \in 0..n }

EnginesArguments == {Omitted} \cup { Given(l) : l \in Lists(RequestNames, MaxEngines) }

ParseEngines(input) ==
    /\ fn.f = "none"
    /\ fn' = [f |-> "enginesSchema", in |-> input, out |-> enginesSchema(input)]
    /\ FnOnly

\* -- truncateDescriptions(results, descLimit?)
MaxResults == 2         \* longest result list
MaxDescLength == 4      \* longest description
MaxDescLimit == 3       \* largest descLimit (a positive integer when given)

SearchResult(t, d) ==
    [title |-> t, url |-> <<"http://", t, ".com">>, description |-> d,
     source |-> "bing", engine |-> "bing"]

Ellipsis == <<".", ".", ".">>

\* descLimit as passed: undefined, or a number
NoLimit == [given |-> FALSE, n |-> 0]
Limit(n) == [given |-> TRUE, n |-> n]

\* variant: a description as long as the limit is cut as well
truncateDescriptionsFromLimit(results, descLimit) ==
    IF ~descLimit.given \/ descLimit.n = 0 THEN results
    ELSE [i \in 1..Len(results) |->
            [results[i] EXCEPT !.description =
                IF Len(@) >= descLimit.n
                THEN slice(@, 0, descLimit.n) \o Ellipsis
                ELSE @]]

\* `!descLimit` holds for undefined and for 0
truncateDescriptions(results, descLimit) ==
    IF ~descLimit.given \/ descLimit.n = 0 THEN results
    ELSE [i \in 1..Len(results) |->
            [results[i] EXCEPT !.description =
                IF Len(@) > descLimit.n
                THEN slice(@, 0, descLimit.n) \o Ellipsis
                ELSE @]]

Descriptions == { SubSeq(<<"a", "b", "c", "d", "e", "f">>, 1, n) : n \in 0..MaxDescLength }
ResultLists ==
    Lists({ SearchResult(t, d) : t \in {"A", "B"}, d \in Descriptions }, MaxResults)
DescLimits == {NoLimit} \cup { Limit(n) : n \in 1..MaxDescLimit }

Truncate(results, descLimit) ==
    /\ fn.f = "none"
    /\ fn' = [f |-> "truncateDescriptions",
              in |-> [results |-> results, descLimit |-> descLimit],
              out |-> truncateDescriptions(results, descLimit)]
    /\ FnOnly

\* -- fetchLinuxDoArticle(url)
\* A URL is a sequence of pieces: "/", the letter "t", the word "topic",
\* the digit "7", and "a" for any other character.  No piece but "/" holds
\* a slash and none but "7" a digit, so the two patterns match a URL
\* exactly where they match its pieces
MaxUrlLength == 6

Pieces == {"/", "t", "topic", "7", "a"}
Urls == Lists(Pieces, MaxUrlLength)

At(url, i, piece) == i \in 1..Len(url) /\ url[i] = piece
StartsWith(url, i, pieces) ==
    \A k \in 1..Len(pieces) : At(url, i + k - 1, pieces[k])

\* (\d+) at place i: the longest run of digits from there
RECURSIVE Digits(_, _)
Digits(url, i) ==
    IF At(url, i, "7") THEN <<url[i]>> \o Digits(url, i + 1) ELSE <<>>

\* (?:[^\/]+\/)?(\d+) at place i: the digits after a segment without
\* slashes, else the digits right here; <<>> when neither is there
SlugAndDigits(url, i) ==
    LET slashes == {q \in (i + 1)..Len(url) : url[q] = "/"}
        q == CHOOSE x \in slashes : \A y \in slashes : x <= y
    IN IF ~At(url, i, "/") /\ slashes # {} /\ Digits(url, q + 1) # <<>>
       THEN Digits(url, q + 1)
       ELSE Digits(url, i)

\* /(?:\/topic\/|\/)t\/(?:[^\/]+\/)?(\d+)/ tried at place i
TopicPathAt(url, i) ==
    IF StartsWith(url, i, <<"/", "topic", "/", "t", "/">>)
       /\ SlugAndDigits(url, i + 5) # <<>>
    THEN SlugAndDigits(url, i + 5)
    ELSE IF StartsWith(url, i, <<"/", "t", "/">>)
    THEN SlugAndDigits(url, i + 3)
    ELSE <<>>

\* /\/topic\/(\d+)/ tried at place i
TopicAt(url, i) ==
    IF StartsWith(url, i, <<"/", "topic", "/">>) THEN Digits(url, i + 3)
    ELSE <<>>

\* variant: /\/topic\/(\w+)/, the id is any word
TopicWordAt(url, i) ==
    IF StartsWith(url, i, <<"/", "topic", "/">>) /\ ~At(url, i + 3, "/")
       /\ i + 3 <= Len(url)
    THEN <<url[i + 3]>>
    ELSE <<>>

\* String.prototype.match without the g flag, reduced to match[1] of the
\* leftmost match: <<>> stands for a null match
FirstMatch(url, places) ==
    IF places = {} THEN <<>>
    ELSE CHOOSE i \in places : \A j \in places : i <= j

matchTopicPath(url) ==
    LET places == {i \in 1..Len(url) : TopicPathAt(url, i) # <<>>}
    IN IF places = {} THEN <<>> ELSE TopicPathAt(url, FirstMatch(url, places))

matchTopicWord(url) ==
    LET places == {i \in 1..Len(url) : TopicWordAt(url, i) # <<>>}
    IN IF places = {} THEN <<>> ELSE TopicWordAt(url, FirstMatch(url, places))

matchTopic(url) ==
    LET places == {i \in 1..Len(url) : TopicAt(url, i) # <<>>}
    IN IF places = {} THEN <<>> ELSE TopicAt(url, FirstMatch(url, places))

\* const match = url.match(...) || url.match(...); match ? match[1] : null
topicId(url) ==
    IF matchTopicPath(url) # <<>> THEN matchTopicPath(url) ELSE matchTopic(url)

Fetching(a, id, n, e) == [at |-> a, topicId |-> id, requests |-> n, error |-> e]

\* the call up to its first await: a throw rejects the promise, else
\* axios.get is issued
Fetch(url) ==
    /\ fn.f = "none"
    /\ fn' = [f |-> "fetchLinuxDoArticle", in |-> url,
              out |-> IF topicId(url) = <<>>
                      THEN Fetching("rejected", <<>>, 0,
                                    "Invalid URL: Cannot extract topic ID.")
                      ELSE Fetching("pending", topicId(url), 1, "none")]
    /\ FnOnly

\* the request settles: the text of the first post is returned, or the
\* error of axios rejects the call
Responded(ok) ==
    /\ fn.f = "fetchLinuxDoArticle"
    /\ fn.out.at = "pending"
    /\ fn' = [fn EXCEPT !.out.at = IF ok THEN "resolved" ELSE "rejected",
                         !.out.error = IF ok THEN "none" ELSE "AxiosError"]
    /\ FnOnly

ToolNext ==
    \/ fn.f = "none" /\ \E input \in EnginesArguments : ParseEngines(input)
    \/ fn.f = "none" /\ \E results \in ResultLists, descLimit \in DescLimits :
                            Truncate(results, descLimit)
    \/ fn.f = "none" /\ \E url \in Urls : Fetch(url)
    \/ \E ok \in BOOLEAN : Responded(ok)
    \/ Taken

\* none of these functions looks at the machine
ToolInit == Init /\ platform = "posix" /\ onDisk = {}

ToolSpec == ToolInit /\ [][ToolNext]_vars

\* ------------------------------------------- searchLinuxDo / searchZhiHu
\* The site searches taken by themselves: the configured engine is asked
\* for limit * 3 results of `site:<host> <query>`; what it gives is filtered
\* by host name, relabelled and cut to limit; what it throws is logged
MaxHits == 3         \* results the engine gives to one call
MaxSiteLimit == 2    \* the limit argument runs over 1..MaxSiteLimit

SiteSearches == {"searchLinuxDo", "searchZhiHu"}

LinuxDo == <<"l", "i", "n", "u", "x", ".", "d", "o">>
ZhuanLan == <<"z", "h", "u", "a", "n", "l", "a", "n", ".", "z", "h", "i", "h", "u", ".", "c", "o", "m">>

\* the host name each function compares with and writes into `source`
Site(f) == IF f = "searchLinuxDo" THEN LinuxDo ELSE ZhuanLan

\* the text of a URL: its scheme ("" when the text carries none), its host
\* as written, and the rest
Href(scheme, hostText, rest) == [scheme |-> scheme, host |-> hostText, rest |-> rest]

Hrefs ==
    { Href("https://", LinuxDo, "/t/topic/1"),
      Href("https://", [LinuxDo EXCEPT ![1] = "L"], "/"),
      Href("https://", <<"w", ".">> \o LinuxDo, "/"),
      Href("https://", ZhuanLan, "/p/1"),
      Href("https://", [ZhuanLan EXCEPT ![1] = "Z"], "/"),
      Href("https://", <<"z", "h", "i", "h", "u", ".", "c", "o", "m">>, "/linux.do"),
      Href("https://", <<"x", ".", "i", "o">>, "/?u=zhuanlan.zhihu.com"),
      Href("", LinuxDo, "/t/topic/1") }

\* new URL(text): throws for a text without a scheme; the hostname of an
\* https URL is its host in lower case
Invalid == [ok |-> FALSE, hostname |-> <<>>]
URL(href) ==
    IF href.scheme = "" THEN Invalid
    ELSE [ok |-> TRUE, hostname |-> toLowerCase(href.host)]

\* String.prototype.endsWith
endsWith(str, tail) ==
    Len(tail) <= Len(str) /\ SubSeq(str, Len(str) - Len(tail) + 1, Len(str)) = tail

\* variant: any host under the site passes
fromSiteOrBelow(result, site) ==
    LET url == URL(result.url) IN url.ok /\ endsWith(url.hostname, site)

\* the callback of results.filter: `new URL(result.url).hostname === site`,
\* false when the constructor throws
fromSite(result, site) ==
    LET url == URL(result.url) IN url.ok /\ url.hostname = site

\* what the engine gave: a list of results, or the error it threw
Gave(results) == [ok |-> TRUE, results |-> results, error |-> "none"]
ThrewError(e) == [ok |-> FALSE, results |-> <<>>, error |-> e]

Hit(href) == [url |-> href, source |-> "bing", engine |-> "bing"]
EngineErrors == {"TimeoutError", "ExecutableNotFound"}
EngineOutcomes ==
    { Gave(l) : l \in Lists({ Hit(h) : h \in Hrefs }, MaxHits) }
        \cup { ThrewError(e) : e \in EngineErrors }

\* the body of the try block after the await, and the catch block
siteSearch(site, outcome, limit) ==
    IF ~outcome.ok THEN <<>>
    ELSE LET filteredResults ==
                 SelectSeq(outcome.results, LAMBDA r : fromSite(r, site))
             relabelled ==
                 [i \in 1..Len(filteredResults) |->
                     [filteredResults[i] EXCEPT !.source = site]]
         IN slice(relabelled, 0, limit)

\* config.defaultSearchEngine
DefaultEngines == {"bing", "duckduckgo", "brave"}

\* the call up to its await: the engine is chosen and asked
SiteSearchCalled(f, cfg, limit) ==
    /\ fn.f = "none"
    /\ fn' = [f |-> f,
              in |-> [limit |-> limit, defaultSearchEngine |-> cfg],
              out |-> [at |-> "pending",
                       asked |-> IF cfg = "duckduckgo" THEN "searchDuckDuckGo"
                                 ELSE "searchBing",
                       siteQuery |-> Site(f),
                       askedLimit |-> limit * 3,
                       got |-> ThrewError("none"),
                       results |-> <<>>]]
    /\ FnOnly

\* the engine's promise settles and the function returns
EngineAnswers(outcome) ==
    /\ fn.f \in SiteSearches
    /\ fn.out.at = "pending"
    /\ fn' = [fn EXCEPT !.out.at = "resolved",
                         !.out.got = outcome,
                         !.out.results = siteSearch(Site(fn.f), outcome, fn.in.limit)]
    /\ FnOnly

SiteNext ==
    \/ fn.f = "none" /\ \E f \in SiteSearches, cfg \in DefaultEngines,
                           limit \in 1..MaxSiteLimit : SiteSearchCalled(f, cfg, limit)
    \/ fn.f \in SiteSearches /\ fn.out.at = "pending"
          /\ \E outcome \in EngineOutcomes : EngineAnswers(outcome)
    \/ Taken

SiteSpec == ToolInit /\ [][SiteNext]_vars

\* ------------------------------------------------------ the handshake loop
\* for (let i = 0; i < 30; i++) { await delay(200); fetch with a 2000 ms
\* abort timer; await resp.json(); break on webSocketDebuggerUrl }
\* of one launch, one timer or response per step.  Time passes in steps of
\* the polling delay and never runs past a timer that is due
MaxProbes == 30
PollDelay == 200
ProbeTimeout == 2000

\* nothing outside the loop moves while it is followed
Outside ==
    UNCHANGED <<envVars, cachedBrowserPath, cachedSession, cleanupRegistered,
                listeners, host, nextLaunch, tempDir, proc, browserPid, conn,
                cleanups, stored, calls, last, torn, trigger, audit, searches,
                owed, issued, hung, apart>>

Due == IF loopAt = "delay" THEN PollDelay ELSE ProbeTimeout

\* time passes while the loop waits for a timer or a response
Tick ==
    /\ loopAt \in {"delay", "fetch", "json"}
    /\ waited + PollDelay <= Due
    /\ waited' = waited + PollDelay
    /\ UNCHANGED <<loopAt, attempt, probes>>
    /\ Outside

\* the 200 ms timer fires: the abort timer is set and fetch is called
DelayEnds ==
    /\ loopAt = "delay"
    /\ waited = PollDelay
    /\ loopAt' = "fetch"
    /\ probes' = probes + 1
    /\ waited' = 0
    /\ UNCHANGED attempt
    /\ Outside

\* variant: a probe that did not succeed is retried without counting it
NextRoundUncounted ==
    /\ loopAt' = "delay"
    /\ waited' = 0
    /\ UNCHANGED <<attempt, probes>>

\* catch {} / finally { clearTimeout }, i++, and the loop test i < 30
NextRound ==
    /\ attempt' = attempt + 1
    /\ IF attempt + 1 < MaxProbes
       THEN loopAt' = "delay" /\ waited' = 0
       ELSE loopAt' = "failed" /\ UNCHANGED waited
    /\ UNCHANGED probes

\* fetch resolves with a response before the abort timer fires
FetchResolves ==
    /\ loopAt = "fetch"
    /\ waited < ProbeTimeout
    /\ loopAt' = "json"
    /\ UNCHANGED <<attempt, waited, probes>>
    /\ Outside

\* fetch rejects (connection refused, reset) before the abort timer fires
FetchRejects ==
    /\ loopAt = "fetch"
    /\ waited < ProbeTimeout
    /\ NextRound
    /\ Outside

\* resp.json() resolves, with or without webSocketDebuggerUrl in the body
JsonResolves ==
    /\ loopAt = "json"
    /\ waited < ProbeTimeout
    /\ \E address \in BOOLEAN :
          IF address
          THEN loopAt' = "found" /\ UNCHANGED <<attempt, waited, probes>>
          ELSE NextRound
    /\ Outside

\* resp.json() rejects: the body is not JSON, or the connection broke
JsonRejects ==
    /\ loopAt = "json"
    /\ waited < ProbeTimeout
    /\ NextRound
    /\ Outside

\* the abort timer fires: controller.abort() rejects the pending fetch or
\* body read with an AbortError
Aborted ==
    /\ loopAt \in {"fetch", "json"}
    /\ waited = ProbeTimeout
    /\ NextRound
    /\ Outside

LoopNext ==
    \/ Tick
    \/ DelayEnds
    \/ FetchResolves
    \/ FetchRejects
    \/ JsonResolves
    \/ JsonRejects
    \/ Aborted

\* timers that are due fire and the event loop runs the continuation that
\* is ready
HandshakeSpec == Init /\ [][LoopNext]_vars /\ WF_vars(LoopNext)

\* ------------------------------------------------- a browser that hangs
\* getSharedBrowser called by one caller at a time, with a browser that may
\* stop answering while its process lives and its connection stays open:
\* `await cachedSession.browser.version()` then waits for a reply that
\* nothing in the code ever gives up on
Hang(s) ==
    /\ host = "running"
    /\ proc[s] = "alive"
    /\ conn[s] = "open"
    /\ s \notin hung
    /\ hung' = hung \cup {s}
    /\ last' = Unsettled
    /\ Quiet
    /\ issued' = NoOp
    /\ UNCHANGED <<envVars, cachedBrowserPath, cachedSession, cleanupRegistered,
                   listeners, host, nextLaunch, tempDir, proc, browserPid, conn,
                   cleanups, stored, calls, searches, owed, loopVars, apart>>

LiveGetStart == calls = EmptyBag /\ GetStart /\ Still

\* the continuations of a pending call; the reply to version() only comes
\* from a browser that answers
Continue ==
    \/ \E k \in Pending : k.s \notin hung /\ ProbeOk(k) /\ Still
    \/ \E k \in Pending : ProbeFail(k) /\ Still
    \/ \E k \in Pending : PortOk(k) /\ Still
    \/ \E k \in Pending : PortFail(k) /\ Still
    \/ \E k \in Pending : Handshake(k) /\ Still
    \/ \E k \in Pending : ConnectOk(k) /\ Still
    \/ \E k \in Pending : ConnectFail(k) /\ Still

LiveNext ==
    \/ LiveGetStart
    \/ Continue
    \/ Destroy /\ Still
    \/ \E s \in LaunchIds : BrowserCrash(s) /\ Still
    \/ \E s \in LaunchIds : Hang(s)

\* a reply that has arrived, a timer that is due or a socket that has closed
\* gets its continuation run by the event loop
LiveSpec == Init /\ [][LiveNext]_vars /\ WF_vars(Continue)

TypeOK ==
    /\ run.entry \in Entries \cup {"none"}
    /\ run.job \in {"none", "warm", "main"}
    /\ run.at \in Over \cup {"get", "newPage", "goto", "sleep", "content", "close", "finally"}
    /\ run.h \in LaunchIds \cup {NULL}
    /\ run.err \in CreationErrors \cup {"none", "TypeError", "OperationFailed"}
    /\ bingWarmedUp \in BOOLEAN
    /\ warmedOn \subseteq LaunchIds
    /\ located.tick \in BOOLEAN /\ located.probes \in 0..Len(Candidates(env))
    /\ located.ret = NoPath \/ \E i \in 1..Len(Candidates(env)) : Candidates(env)[i] = located.ret
    /\ hung \subseteq LaunchIds
    /\ loopAt \in {"delay", "fetch", "json", "found", "failed"}
    /\ attempt \in 0..MaxProbes
    /\ waited \in 0..ProbeTimeout
    /\ probes \in 0..MaxProbes
    /\ Running \subseteq [at : SearchStages, h : LaunchIds]
    /\ owed \in 0..NumSearches
    /\ issued.h \in LaunchIds \cup {NULL}
    /\ cachedSession \in LaunchIds \cup {NULL}
    /\ host \in {"running", "gone"}
    /\ listeners \subseteq Events
    /\ nextLaunch \in 0..MaxLaunches
    /\ Pending \subseteq CallStates
    /\ BagCardinality(calls) <= NumCallers
    /\ last.ret \in LaunchIds \cup {NULL}
    /\ last.via \in {"none", "slot", "launch"}
    /\ torn.s \in LaunchIds \cup {NULL}
    /\ trigger \in Events \cup {"none", "destroySharedBrowser"}

\* ======================================================================
\* Properties
\* ======================================================================
LiveProcesses == {s \in LaunchIds : proc[s] = "alive"}
ActiveSessions == {s \in stored : proc[s] = "alive"}
AllReturned == calls = EmptyBag

\* a call is entered in this step and comes to wait as k
Started(k) == calls' = With(calls, k)

\* a call is entered in this step and rejects before its first await
RejectedAtOnce == calls' = calls /\ last'.err # "none"

\* the pending call k settles in this step
Settled(k) == k \in Pending /\ host' = "running" /\ calls' = Without(k)

\* the pending call k goes on to its next await in this step
Advanced(k) == k \in Pending /\ \E n \in CallStates \ {k} : calls' = With(Without(k), n)

\* a session that was put in the slot, is no longer there and was never
\* handed to cleanupSession
Leaked(s) == s \in stored /\ cachedSession # s /\ cleanups[s] = 0

\* C1: at every instant at most one session with a live browser process
\* exists, and whenever no getSharedBrowser call is pending, not more than
\* one browser process is alive (a browser that died by itself is not held
\* against the claim)
C1_SingleActiveSession ==
    /\ Cardinality(ActiveSessions) <= 1
    /\ AllReturned => Cardinality(LiveProcesses) <= 1

\* C2: when a caller stores its session over another caller's session, the
\* displaced session is not cleaned in that step, and a displaced session
\* stays out of reach for good: it never returns to the slot, cleanupSession
\* never runs on it, its profile directory stays on disk, and no step of the
\* program ends its process
C2_OverwrittenSessionLeaks ==
    [][ /\ \A k \in CallStates :
            (Settled(k) /\ k.at = "connect" /\ last'.err = "none"
                /\ cachedSession # NULL)
                => /\ cachedSession' = k.s
                   /\ cachedSession' # cachedSession
                   /\ proc'[cachedSession] = proc[cachedSession]
                   /\ tempDir'[cachedSession] = "exists"
                   /\ cleanups'[cachedSession] = 0
        /\ \A s \in LaunchIds :
            Leaked(s) => /\ Leaked(s)'
                         /\ tempDir[s] = "exists" /\ tempDir'[s] = "exists"
                         /\ (proc'[s] # proc[s] =>
                                (cachedSession' = cachedSession /\ calls' = calls
                                   /\ cleanups' = cleanups /\ tempDir' = tempDir))
      ]_vars

\* two browsers run side by side, one just put in the slot, the other
\* displaced, and no call is pending
C2_Witness ==
    \E s, t \in LaunchIds :
        /\ s # t /\ Leaked(s) /\ cachedSession = t
        /\ proc[s] = "alive" /\ proc[t] = "alive"
        /\ tempDir[s] = "exists" /\ tempDir[t] = "exists"
        /\ AllReturned
        /\ last = Resolved(t, "launch")

\* C3: when the host is gone, cleanupSession has run on every session that
\* was ever put in the slot
C3_AllSessionsCleanedAtExit ==
    host = "gone" => \A s \in stored : cleanups[s] >= 1

\* C4: cleanupSession runs at most once per session; the step that runs it
\* finds the session in the slot and leaves the slot empty, so a cleaned
\* session is never in the slot when a later trigger fires
C4_CleanupAtMostOnce ==
    [][ \A s \in LaunchIds :
          /\ cleanups'[s] <= 1
          /\ cleanups'[s] # cleanups[s] => (cachedSession = s /\ cachedSession' = NULL)
          /\ cleanups[s] >= 1 => (cachedSession # s /\ cachedSession' # s)
      ]_vars

\* a session was cleaned once and both signal listeners have fired since
\* registration while the host kept running
C4_Witness ==
    /\ host = "running"
    /\ cleanupRegistered
    /\ listeners = {"exit"}
    /\ cachedSession = NULL
    /\ \E s \in stored : cleanups[s] = 1

\* what the slot owns, and the handlers
Untouched ==
    UNCHANGED <<cachedSession, proc, tempDir, conn, browserPid, nextLaunch,
                cleanups, stored, cleanupRegistered, listeners>>

\* C5: a getSharedBrowser call that finds a session in the slot launches
\* nothing and only issues the probe; when the probe succeeds with that
\* session still in the slot the call returns that very session (same
\* process identifier), and neither step touches the slot, any process, any
\* profile directory or the listeners
C5_ReuseLeavesSessionUntouched ==
    [][ \A k \in CallStates :
          /\ (Started(k) /\ cachedSession # NULL)
                => (k = Call("probing", cachedSession) /\ Untouched)
          /\ (Settled(k) /\ k.at = "probing" /\ conn[k.s] = "open"
                /\ cachedSession = k.s)
                => /\ last' = Resolved(k.s, "slot")
                   /\ browserPid'[last'.ret] = browserPid[k.s]
                   /\ proc'[last'.ret] = "alive"
                   /\ Untouched
      ]_vars

\* a call has just been answered from the slot, by the one session that
\* was ever launched, and no call is pending
C5_Witness ==
    /\ nextLaunch = 1
    /\ cachedSession = 1
    /\ proc[1] = "alive"
    /\ last = Resolved(1, "slot")
    /\ AllReturned

C7_ProbeFailureIsTransparent ==
    [][ \A k \in CallStates :
          /\ (k.at = "probing" /\ conn[k.s] = "closed"
                /\ (Settled(k) \/ Advanced(k)))
                => /\ Settled(k) => last'.err \in CreationErrors
                   /\ cleanups'[k.s] >= 1
                   /\ cachedSession' = NULL
          /\ (Settled(k) /\ k.at = "connect" /\ last'.err = "none")
                => last'.ret = k.s
      ]_vars

\* C8: a call whose launch fails rejects with the error of the failed stage
\* and the slot is empty right after; the slot only ever receives a session
\* in the step in which its puppeteer connection opens
C8_FailedCreationLeavesSlotEmpty ==
    [][ /\ \A k \in CallStates :
            (Settled(k) /\ k.at \in {"port", "handshake", "connect"}
                /\ last'.err # "none")
                => (last'.err \in CreationErrors /\ cachedSession' = NULL)
        /\ RejectedAtOnce
                => (last'.err \in CreationErrors /\ cachedSession' = NULL)
        /\ \A s \in LaunchIds :
            (cachedSession' = s /\ cachedSession # s)
                => (conn[s] = "none" /\ conn'[s] = "open")
      ]_vars

\* C9: when the handshake loop runs out of attempts the call fails with
\* the handshake error, the started browser is no longer alive, its profile
\* directory is gone and the slot is empty
C9_HandshakeTimeoutCleansUp ==
    [][ \A k \in CallStates :
          (Settled(k) /\ k.at = "handshake")
              => /\ last' = Rejected("HandshakeTimeout")
                 /\ proc'[k.s] # "alive"
                 /\ tempDir'[k.s] = "removed"
                 /\ cachedSession' = NULL
      ]_vars

NoCandidateOnDisk ==
    LET cs == Candidates(env) IN \A i \in 1..Len(cs) : cs[i] \notin onDisk

\* C10: while no candidate path exists no call gets past the search for the
\* executable and none resolves: a call rejects at once, with the
\* executable-not-found error; the slot was empty and stays empty, and
\* nothing is launched or created
C10_NoExecutableFailsCleanly ==
    [][ NoCandidateOnDisk =>
          /\ calls' = EmptyBag
          /\ last' \in {Unsettled, Rejected("ExecutableNotFound")}
          /\ cachedSession = NULL /\ cachedSession' = NULL
          /\ cachedBrowserPath' = NoPath
          /\ UNCHANGED <<nextLaunch, tempDir, proc, conn, stored, listeners>>
      ]_vars

\* a call has just failed for want of an executable on a machine without a
\* browser
C10_Witness ==
    /\ NoCandidateOnDisk
    /\ cachedSession = NULL
    /\ nextLaunch = 0
    /\ last = Rejected("ExecutableNotFound")

\* C11: when the browser process cannot be started the call rejects with an
\* error of the launch, the profile directory made for it is gone and the
\* slot is empty.  On win32 execFileSync throws and the call rejects in that
\* step; elsewhere spawn yields no process, the launch goes on to the
\* handshake, never connects and rejects when the handshake gives up
C11_SpawnFailureCleansUp ==
    [][ \A k \in CallStates :
          /\ (Settled(k) /\ k.at = "port" /\ last'.err = "LaunchFailed")
                => (tempDir'[k.s] = "removed" /\ cachedSession' = NULL)
          /\ (k.at = "handshake" /\ proc[k.s] = "none")
                => /\ ~Advanced(k)
                   /\ Settled(k) => /\ last'.err \in CreationErrors
                                    /\ tempDir'[k.s] = "removed"
                                    /\ cachedSession' = NULL
      ]_vars

\* C12: every teardown of a session is on record, and every teardown on
\* record (by cleanupSession or by a failed launch) ends with one rmSync of
\* the profile directory, made after the kill if there was one, whatever
\* became of the disconnect and the kill and with or without a process
\* identifier; the directory is gone as soon as that rmSync goes through
C12_RemovalAlwaysAttempted ==
    [][ /\ \A s \in LaunchIds : cleanups'[s] # cleanups[s] => torn'.s = s
        /\ torn'.s # NULL =>
             /\ Made(torn', "rm") = {Len(torn'.steps)}
             /\ \A i \in Made(torn', "kill") : i < Len(torn'.steps)
             /\ (Made(torn', "kill") = {}) = (browserPid[torn'.s] = NoPid)
             /\ Did(torn', "rm", "ok") => tempDir'[torn'.s] = "removed"
             /\ tempDir'[torn'.s] \in {"removed", "stuck"}
      ]_vars

\* a session whose browser had died was torn down: the disconnect and the
\* kill both threw, and the directory was removed all the same
C12_Witness ==
    /\ torn.s \in stored
    /\ cleanups[torn.s] = 1
    /\ torn.steps = << <<"disconnect", "failed">>, <<"kill", "failed">>, <<"rm", "ok">> >>
    /\ tempDir[torn.s] = "removed"

\* the teardown entry points: destroySharedBrowser and the listener
\* `cleanup` on each of its three events
EntryPoints == Events \cup {"destroySharedBrowser"}

\* C13: destroySharedBrowser and the exit / signal listener, entered with a
\* session in the slot, run to their end whatever the disconnect, the kill
\* and the rmSync do: all of cleanupSession is carried out on that session,
\* the slot is empty afterwards, and a signal listener leaves the host
\* running
C13_TeardownNeverThrows ==
    [][ (trigger' \in EntryPoints /\ cachedSession # NULL)
            => /\ cachedSession' = NULL
               /\ torn'.s = cachedSession
               /\ cleanups'[cachedSession] = cleanups[cachedSession] + 1
               /\ Made(torn', "disconnect") = {1}
               /\ Made(torn', "rm") = {Len(torn'.steps)}
               /\ host' = IF trigger' = "exit" THEN "gone" ELSE "running"
      ]_vars

\* a signal listener found a session in the slot; disconnect, kill and
\* rmSync all threw, the slot is empty and the host is still running
C13_Witness ==
    /\ trigger \in Signals
    /\ host = "running"
    /\ torn.s \in stored
    /\ torn.steps = << <<"disconnect", "failed">>, <<"kill", "failed">>, <<"rm", "failed">> >>
    /\ tempDir[torn.s] = "stuck"
    /\ cachedSession = NULL

\* C14: destroySharedBrowser called with the slot empty does nothing: no
\* disconnect, no kill, no rmSync, and no part of the module's state changes
\* (browsers being launched or already displaced are left as they are)
C14_DestroyOnEmptySlot ==
    [][ (trigger' = "destroySharedBrowser" /\ cachedSession = NULL)
            => /\ torn' = NoTeardown
               /\ UNCHANGED <<envVars, cachedBrowserPath, cachedSession,
                              cleanupRegistered, listeners, host, nextLaunch,
                              tempDir, proc, browserPid, conn, cleanups,
                              stored, calls>> ]_vars

\* destroySharedBrowser has just run with the slot empty while a launch was
\* waiting for its browser: that browser and its directory are untouched
C14_Witness ==
    /\ trigger = "destroySharedBrowser"
    /\ cachedSession = NULL
    /\ torn = NoTeardown
    /\ \E k \in Pending : /\ k.at = "handshake"
                          /\ proc[k.s] = "alive"
                          /\ tempDir[k.s] = "exists"
                          /\ cleanups[k.s] = 0

\* C15: sessions only move forward.  A session cleanupSession has run on is
\* never put in the slot and never returned by getSharedBrowser afterwards;
\* and a call whose probe fails discards the session it probed (cleanupSession
\* has run on it, it is not in the slot, it is not returned) and goes on to
\* launch a new one, reporting nothing but an error of that launch
C15_SessionsOnlyMoveForward ==
    [][ /\ \A s \in LaunchIds :
             cleanups[s] >= 1
                => /\ cachedSession' # s
                   /\ ~(last'.err = "none" /\ last'.ret = s)
        /\ \A k \in CallStates :
             (k.at = "probing" /\ conn[k.s] = "closed"
                /\ (Settled(k) \/ Advanced(k)))
                => /\ cleanups'[k.s] >= 1
                   /\ cachedSession' # k.s
                   /\ \A s \in LaunchIds \ {k.s} : cleanups'[s] = cleanups[s]
                   /\ Settled(k) => last'.err \in CreationErrors
      ]_vars

\* C16: once cleanupSession has run on a session, no operation (version,
\* newPage, goto, content, close) is issued through its handle and nothing
\* touches its process or its profile directory again, also while several
\* searches hold the same handle and one of them destroys the session
C16_NoUseAfterDestroy ==
    [][ /\ issued'.h # NULL => cleanups'[issued'.h] = 0
        /\ \A s \in LaunchIds :
             cleanups[s] >= 1 => /\ cleanups'[s] = cleanups[s]
                                 /\ proc'[s] = proc[s]
                                 /\ tempDir'[s] = tempDir[s] ]_vars

LoopEnded == loopAt \in {"found", "failed"}

\* C17: the handshake loop always terminates.  It issues at most 30 probes,
\* each only when the 200 ms delay has run out and none pending for more
\* than 2000 ms; a probe that fails, is aborted or carries no address uses up
\* one attempt and the loop goes on; the loop stops for good at the first
\* response with an address, and it reports failure exactly when 30 probes
\* were issued and none carried one
C17_HandshakeLoopTerminates ==
    /\ <>LoopEnded
    /\ [](probes <= MaxProbes /\ waited <= Due)
    /\ [](loopAt = "failed" => (probes = MaxProbes /\ attempt = MaxProbes))
    /\ [](loopAt = "found" => (probes = attempt + 1 /\ attempt < MaxProbes))
    /\ [][ /\ probes' # probes
              => (loopAt = "delay" /\ waited = PollDelay /\ probes' = probes + 1)
           /\ (loopAt \in {"fetch", "json"} /\ loopAt' \notin {"fetch", "json", "found"})
              => (attempt' = attempt + 1
                    /\ loopAt' = IF attempt' < MaxProbes THEN "delay" ELSE "failed")
           /\ LoopEnded => UNCHANGED loopVars ]_vars

\* all 30 probes were issued, the last one was aborted by its timer, and the
\* loop has ended in failure
C17_Witness ==
    /\ loopAt = "failed"
    /\ probes = MaxProbes
    /\ attempt = MaxProbes
    /\ waited = ProbeTimeout

\* C18: a getSharedBrowser call that found a session in the slot and waits
\* for the reply to version() eventually settles (with a handle or with an
\* error), whether or not the browser ever answers
C18_ProbeAlwaysCompletes ==
    (\E k \in Pending : k.at = "probing") ~> (calls = EmptyBag)

\* C19: a teardown of a session first issues a close request to the browser
\* and waits for it under a timeout; the kill by process identifier follows
\* only when that close failed or timed out, and never after a close that
\* succeeded
C19_GracefulCloseBeforeKill ==
    [][ \A s \in LaunchIds :
          cleanups'[s] # cleanups[s]
             => /\ torn'.s = s
                /\ Made(torn', "close") # {}
                /\ \A i \in Made(torn', "kill") :
                      \E j \in 1..(i - 1) : torn'.steps[j] \in {<<"close", "failed">>,
                                                              <<"close", "timeout">>} ]_vars

\* C20: on win32, where ending a process identifier ends that one process,
\* a teardown that killed the browser leaves none of the processes the
\* browser had started alive
C20_WholeProcessTreeTerminated ==
    [][ \A s \in LaunchIds :
          (cleanups'[s] # cleanups[s] /\ platform = "win32"
             /\ Did(torn', "kill", "ok"))
             => (torn'.s = s /\ proc'[s] = "dead" /\ ~torn'.orphans) ]_vars

\* the search under way ends in this step with an error thrown by
\* searchBaidu / searchBing
EngineThrows == run.at \notin Over /\ run'.at \in Over /\ run'.err # "none"

\* C21: when searchBaidu or searchBing throws (its getSharedBrowser call,
\* newPage, goto, content or close rejected), destroySharedBrowser has run
\* in the same turn: the session that was in the slot has been handed to
\* cleanupSession and the slot is empty when the error reaches the caller; a
\* getSharedBrowser call that finds the slot empty probes nothing and starts
\* a launch of its own (or fails with an error of that launch)
C21_ThrowingSearchInvalidates ==
    [][ /\ EngineThrows
            => /\ cachedSession' = NULL
               /\ cachedSession # NULL
                     => cleanups'[cachedSession] = cleanups[cachedSession] + 1
        /\ \A k \in CallStates :
             (Started(k) /\ cachedSession = NULL)
                => /\ k.at = "port"
                   /\ k.s = nextLaunch + 1
                   /\ k.s \notin stored
                   /\ cleanups[k.s] = 0
        /\ (RejectedAtOnce /\ cachedSession = NULL)
                => last'.err \in CreationErrors ]_vars

\* searchBaidu or searchBing has just thrown out of a failed operation: the
\* session it was using was in the slot, has been cleaned, and the slot is
\* empty
C21_Witness ==
    /\ run.at = "threw"
    /\ run.err = "OperationFailed"
    /\ cachedSession = NULL
    /\ \E s \in stored : cleanups[s] = 1 /\ conn[s] = "closed"

\* C22: when the getSharedBrowser call of a search rejects with a creation
\* error, the search (searchBaidu, searchBing, searchLinuxDo, searchZhiHu)
\* ends by throwing that very error and returns no result list
C22_CreationErrorSurfaces ==
    [][ (run.at = "get" /\ owed > 0 /\ last.err \in CreationErrors
           /\ run'.at \in Over)
            => (run'.at = "threw" /\ run'.err = last.err) ]_vars

\* searchBing issues page.goto(searchUrl) on a result page
BingNavigates ==
    /\ UsesBing(run.entry) /\ run.job = "main"
    /\ run.at = "newPage" /\ run'.at = "goto"

\* C25: whenever searchBing navigates a result page on a session, the
\* warm-up navigation has completed before on that same session; the warmed
\* flag is never true for a session in the slot that was not warmed
C25_WarmedOnSameSession ==
    [][ /\ BingNavigates => run.h \in warmedOn
        /\ (bingWarmedUp' /\ cachedSession' # NULL)
              => cachedSession' \in warmedOn' ]_vars

\* search x has a page open: newPage resolved and close has not
PageOpen(x) == x.at \in {"goto", "sleep", "content", "close"}

\* C26: a search returns only out of a resolved page.close(); a search that
\* throws with a page open has that page on the session in the slot, which
\* its catch block destroys, or on a session that was cleaned up before
C26_PagesClosedOrDestroyed ==
    [][ \A x \in Running :
          searches' = SearchesLeft(x)
             => /\ issued' = Returned => x.at = "close" /\ conn[x.h] = "open"
                /\ (issued' = Threw /\ PageOpen(x))
                      => (cachedSession = x.h \/ cleanups[x.h] > 0) ]_vars

\* getBrowserPath was called by itself in this step
PathCalled == located'.tick # located.tick

\* C23: a getBrowserPath call with nothing cached returns the first of the
\* de-duplicated candidates, in their fixed order, that is on disk, and
\* caches it (it throws and caches nothing when there is none); with a path
\* cached it returns that path without a single existsSync call, whether
\* the file is still there or not, and the cache never changes again
C23_FirstExistingThenCached ==
    [][ /\ cachedBrowserPath # NoPath => cachedBrowserPath' = cachedBrowserPath
        /\ PathCalled =>
              LET unique == Unique(Candidates(env)) IN
              IF cachedBrowserPath # NoPath
              THEN located'.ret = cachedBrowserPath /\ located'.probes = 0
              ELSE \/ /\ \A i \in 1..Len(unique) : unique[i] \notin onDisk
                      /\ located'.ret = NoPath
                      /\ cachedBrowserPath' = NoPath
                   \/ \E i \in 1..Len(unique) :
                         /\ unique[i] \in onDisk
                         /\ \A j \in 1..(i - 1) : unique[j] \notin onDisk
                         /\ located'.ret = unique[i]
                         /\ located'.probes = i
                         /\ cachedBrowserPath' = unique[i] ]_vars

\* a later call returned the cached path after its file was removed, while
\* another candidate is on disk
C23_Witness ==
    /\ located.ret # NoPath
    /\ located.ret = cachedBrowserPath
    /\ located.probes = 0
    /\ located.ret \notin onDisk
    /\ onDisk # {}

\* C24: two findFreePort calls made one right after the other resolve with
\* two different ports
C24_SuccessivePortsDistinct ==
    \A c \in 1..(Len(net.srv) - 1) :
       (net.srv[c].at = "resolved" /\ net.srv[c + 1].at = "resolved")
          => net.srv[c].port # net.srv[c + 1].port

\* passes through `while (allResults.length < limit)` so far
Iterations ==
    IF ByLink(fn.f) THEN fn.out.pn
    ELSE (fn.out.pn \div PnStep(fn.f)) + 1

\* what is returned is allResults cut to limit
LimitRespected ==
    (Paged /\ fn.out.at = "returned")
       => /\ Len(fn.out.ret) <= fn.in
          /\ fn.out.ret = SubSeq(fn.out.allResults, 1, Len(fn.out.ret))
          /\ Len(fn.out.ret) < fn.in => fn.out.ret = fn.out.allResults

\* a step after which the loop goes on, taken from one of the stages
GoesOnFrom(stages) ==
    Paged /\ fn.out.at \in stages /\ fn'.out.at = "loop"

\* C27: a search called with limit >= 1 returns at most limit
\* results and its loop ends, and the search goes on to another page only
\* when fewer than limit results are collected and the page just parsed,
\* whichever it was, had results and was not the security-verification page
C27_StopsOnAnyEmptyPage ==
    /\ []LimitRespected
    /\ [](Paged => Iterations <= fn.in)
    /\ [][ GoesOnFrom({"first", "loop"})
             => /\ Len(fn'.out.allResults) < fn.in
                /\ fn'.out.page.n > 0
                /\ ~fn'.out.page.verify ]_vars
    /\ (Paged /\ fn.out.at \in {"first", "loop"})
          ~> (Paged /\ fn.out.at \in {"returned", "threw"})

\* what holds of all three loops: at most limit results are returned, and
\* the loop ends after at most limit passes, since a pass is followed by
\* another only when fewer than limit results are collected and the pass
\* added at least one
LoopsEndWithinLimit ==
    /\ []LimitRespected
    /\ [](Paged => Iterations <= fn.in)
    /\ [][ GoesOnFrom({"loop"})
             => /\ Len(fn'.out.allResults) < fn.in
                /\ Len(fn'.out.allResults) > Len(fn.out.allResults)
                /\ ~fn'.out.page.verify ]_vars
    /\ (Paged /\ fn.out.at \in {"first", "loop"})
          ~> (Paged /\ fn.out.at \in {"returned", "threw"})

\* two names differ at most in the case of their letters
SameIgnoringCase(a, b) ==
    /\ Len(a) = Len(b)
    /\ \A i \in 1..Len(a) :
          \/ a[i] = b[i]
          \/ \E j \in 1..Len(UpperCase) :
                {a[i], b[i]} = {UpperCase[j], LowerCase[j]}

\* the places of a request that name an allowed engine in some casing
Hits(list) ==
    { i \in 1..Len(list) :
        \E j \in 1..Len(SUPPORTED_ENGINES) :
           SameIgnoringCase(list[i], SUPPORTED_ENGINES[j]) }
Nth(S, k) == CHOOSE i \in S : Cardinality({h \in S : h < i}) = k - 1

\* C28: an engines list parses to its names that are allowed engines in
\* some casing, each in lower case, in the order of the request; an empty
\* list and a list without any allowed engine are rejected; a request
\* without the argument gets <<bing>>
C28_EnginesMatchedIgnoringCase ==
    fn.f = "enginesSchema" =>
       LET list == fn.in.list
           value == fn.out.value
       IN IF ~fn.in.given
          THEN fn.out.ok /\ value = << <<"b", "i", "n", "g">> >>
          ELSE IF Hits(list) = {}
          THEN ~fn.out.ok
          ELSE /\ fn.out.ok
               /\ Len(value) = Cardinality(Hits(list))
               /\ \A k \in 1..Len(value) :
                     /\ includes(SUPPORTED_ENGINES, value[k])
                     /\ SameIgnoringCase(list[Nth(Hits(list), k)], value[k])

\* a request naming Bing and EXA in capitals beside a name that is no
\* engine was parsed
C28_Witness ==
    /\ fn.f = "enginesSchema"
    /\ fn.in.given /\ Len(fn.in.list) = 3
    /\ fn.out.ok /\ Len(fn.out.value) = 2
    /\ \A k \in 1..2 : ~includes(fn.in.list, fn.out.value[k])

\* description cut is description orig reduced to its first n characters
\* and '...'
CutTo(cut, orig, n) ==
    /\ Len(cut) = n + 3
    /\ \A j \in 1..n : cut[j] = orig[j]
    /\ \A j \in (n + 1)..(n + 3) : cut[j] = "."

\* C29: truncateDescriptions returns as many results as it was given, in
\* the same order and with every field but the description as it was; with
\* no limit given every description is as it was; with a limit, a
\* description of at most that length (the empty one, one of exactly that
\* length) is as it was, and a longer one is its first descLimit characters
\* followed by '...'
C29_DescriptionsTruncated ==
    fn.f = "truncateDescriptions" =>
       LET results == fn.in.results
           descLimit == fn.in.descLimit
       IN /\ Len(fn.out) = Len(results)
          /\ \A i \in 1..Len(results) :
                /\ \A field \in {"title", "url", "source", "engine"} :
                      fn.out[i][field] = results[i][field]
                /\ DOMAIN fn.out[i] = DOMAIN results[i]
                /\ IF ~descLimit.given \/ Len(results[i].description) <= descLimit.n
                   THEN fn.out[i].description = results[i].description
                   ELSE CutTo(fn.out[i].description, results[i].description,
                              descLimit.n)

\* two results were passed with a limit, the first description exactly as
\* long as the limit, the second longer
C29_Witness ==
    /\ fn.f = "truncateDescriptions"
    /\ fn.in.descLimit.given
    /\ Len(fn.in.results) = 2
    /\ Len(fn.in.results[1].description) = fn.in.descLimit.n
    /\ Len(fn.in.results[2].description) > fn.in.descLimit.n
    /\ fn.out[1] = fn.in.results[1]
    /\ fn.out[2] # fn.in.results[2]

\* a run of at least one digit starts at place i
DigitAt(url, i) == i \in 1..Len(url) /\ url[i] = "7"

\* the URL holds /t/<digits> or /t/<slug>/<digits>
HasTSegment(url) ==
    \E i \in 1..Len(url) :
       /\ i + 2 <= Len(url)
       /\ url[i] = "/" /\ url[i + 1] = "t" /\ url[i + 2] = "/"
       /\ \/ DigitAt(url, i + 3)
          \/ \E q \in (i + 4)..Len(url) :
                /\ \A j \in (i + 3)..(q - 1) : url[j] # "/"
                /\ url[q] = "/"
                /\ DigitAt(url, q + 1)

\* the URL holds /topic/<digits>
HasTopicSegment(url) ==
    \E i \in 1..Len(url) :
       /\ i + 2 <= Len(url)
       /\ url[i] = "/" /\ url[i + 1] = "topic" /\ url[i + 2] = "/"
       /\ DigitAt(url, i + 3)

\* C30: a fetchLinuxDoArticle call with a URL that holds neither
\* /t/[slug/]<digits> nor /topic/<digits> is rejected with
\* 'Invalid URL: Cannot extract topic ID.', and no request has been issued
C30_InvalidUrlRejectedOffline ==
    (fn.f = "fetchLinuxDoArticle" /\ ~HasTSegment(fn.in) /\ ~HasTopicSegment(fn.in))
       => /\ fn.out.at = "rejected"
          /\ fn.out.error = "Invalid URL: Cannot extract topic ID."
          /\ fn.out.requests = 0

\* a URL with /topic/ followed by no digit, and with /t/ followed by a
\* segment without digits after it, was rejected
C30_Witness ==
    /\ fn.f = "fetchLinuxDoArticle"
    /\ fn.out.at = "rejected" /\ fn.out.requests = 0
    /\ \E i \in 1..Len(fn.in) : StartsWith(fn.in, i, <<"/", "topic", "/", "a">>)

\* the pending call k found its version() probe rejected in this step
ProbeFailed(k) ==
    k.at = "probing" /\ conn[k.s] = "closed" /\ (Settled(k) \/ Advanced(k))

\* C31: the step in which the probe of a call fails cleans no session but
\* the one that call probed, and takes no other session out of the slot: a
\* session stored by another caller while the probe was pending stays in the
\* slot, untouched
C31_ProbeFailureCleansProbedSession ==
    [][ \A k \in CallStates :
          ProbeFailed(k)
              => /\ \A s \in LaunchIds : cleanups'[s] # cleanups[s] => s = k.s
                 /\ cachedSession # k.s
                        => (cachedSession' = cachedSession
                              /\ UNCHANGED <<proc, conn, tempDir>>)
      ]_vars

\* the operation search x was waiting for rejected in this step, and the
\* catch block of the search ran
SearchFailed(x) ==
    x \in Running /\ searches' = SearchesLeft(x) /\ issued' = Threw

\* C32: the destroySharedBrowser of a failing search cleans no session but
\* the one whose handle the search held; when the slot holds another session
\* by then, that session stays in the slot with its browser, its connection
\* and its profile directory
C32_FailedSearchDestroysItsOwnSession ==
    [][ \A x \in [at : SearchStages, h : LaunchIds] :
          SearchFailed(x)
              => /\ \A s \in LaunchIds : cleanups'[s] # cleanups[s] => s = x.h
                 /\ cachedSession # x.h
                        => (cachedSession' = cachedSession
                              /\ UNCHANGED <<proc, conn, tempDir>>)
      ]_vars

\* C33: every getSharedBrowser call that settles either resolves with the
\* handle of a session or rejects with an error of launchBrowser; no call
\* ends with the TypeError of reading a field of the null slot
C33_ReturnsHandleOrCreationError ==
    [][ /\ \A k \in CallStates :
            Settled(k) => \/ last'.err = "none" /\ last'.ret \in LaunchIds
                          \/ last'.err \in CreationErrors
        /\ RejectedAtOnce => last'.err \in CreationErrors
      ]_vars

\* the launch of the pending call k ended in this step with an error
LaunchFailedAt(k, stages) ==
    Settled(k) /\ k.at \in stages /\ last'.err # "none"

\* C34: when launchBrowser ends, the profile directory it made either
\* belongs to the session it returned or has been through an rmSync: a
\* launch that fails at the port allocation, at the start of the process, in
\* the handshake or at the connect leaves no directory that nobody tried to
\* remove
C34_ProfileDirOwnedOrRemoved ==
    [][ \A k \in CallStates :
          /\ LaunchFailedAt(k, {"port", "handshake", "connect"})
                => tempDir'[k.s] \in {"removed", "stuck"}
          /\ (Settled(k) /\ k.at = "connect" /\ last'.err = "none")
                => (last'.ret = k.s /\ tempDir'[k.s] = "exists")
      ]_vars

\* C35: a launch that fails in the handshake or at the connect after its
\* browser process was started has called process.kill on that process,
\* before the removal of the directory and before it rejects; the kill ends
\* a process that was still alive, and the process is not alive afterwards
C35_FailedLaunchKillsBrowser ==
    [][ \A k \in CallStates :
          (LaunchFailedAt(k, {"handshake", "connect"}) /\ proc[k.s] # "none")
              => /\ torn'.s = k.s
                 /\ Made(torn', "kill") = {1}
                 /\ proc[k.s] = "alive" => torn'.steps[1] = <<"kill", "ok">>
                 /\ proc'[k.s] = "dead"
      ]_vars

\* a launch has just failed at the connect with its browser running: the
\* browser was killed and the directory removed
C35_Witness ==
    /\ last = Rejected("ConnectFailed")
    /\ torn.s \in LaunchIds
    /\ torn.steps = << <<"kill", "ok">>, <<"rm", "ok">> >>
    /\ proc[torn.s] = "dead"
    /\ browserPid[torn.s] # NoPid

\* C36: the step in which a call fails for want of a browser executable
\* makes no profile directory, lets no call come to wait for a port and
\* starts no process; the call that fails was running launchBrowser on an
\* empty slot
C36_ResolutionPrecedesSideEffects ==
    [][ last'.err = "ExecutableNotFound"
          => /\ nextLaunch' = nextLaunch
             /\ \A s \in LaunchIds :
                  /\ tempDir[s] = "none" => tempDir'[s] = "none"
                  /\ proc[s] = "none" => proc'[s] = "none"
                  /\ browserPid'[s] = browserPid[s]
             /\ \A k \in CallStates :
                  k.at \in {"port", "handshake", "connect"}
                      => CopiesIn(k, calls') <= CopiesIn(k, calls)
             /\ cachedBrowserPath' = NoPath
             /\ cachedSession' = NULL
      ]_vars

\* on a Windows machine without a browser a call has just failed for want
\* of an executable, and nothing was created
C36_Witness ==
    /\ platform = "win32"
    /\ last = Rejected("ExecutableNotFound")
    /\ \A s \in LaunchIds : tempDir[s] = "none" /\ proc[s] = "none"
    /\ calls = EmptyBag

\* C37: the three listeners are attached in one step, the step that stores
\* the first session ever created; before it none is attached, after it
\* none is ever attached again, whatever is created later; and a listener
\* that fires works on the session that is in the slot when it fires, cleans
\* that one and no other, and leaves the slot empty
C37_ListenersRegisteredOnce ==
    [][ /\ ~cleanupRegistered => (listeners = {} /\ stored = {})
        /\ cleanupRegistered => (cleanupRegistered' /\ listeners' \subseteq listeners)
        /\ (~cleanupRegistered /\ cleanupRegistered')
              => /\ listeners' = Events
                 /\ cachedSession' \in LaunchIds
                 /\ stored' = {cachedSession'}
                 /\ last' = Resolved(cachedSession', "launch")
        /\ stored' # {} => cleanupRegistered'
        /\ trigger' \in Events
              => /\ trigger' \in listeners /\ trigger' \notin listeners'
                 /\ torn'.s = cachedSession
                 /\ \A s \in LaunchIds : cleanups'[s] # cleanups[s] => s = cachedSession
                 /\ cachedSession' = NULL
      ]_vars

\* the listener of SIGINT has just fired and cleaned the second session,
\* which was created after the listeners had been attached for the first;
\* the other two listeners are still attached
C37_Witness ==
    /\ trigger = "SIGINT"
    /\ host = "running"
    /\ cleanupRegistered
    /\ listeners = {"exit", "SIGTERM"}
    /\ stored = {1, 2}
    /\ torn.s = 2
    /\ cleanups[2] = 1
    /\ cachedSession = NULL

\* a site search has returned
SiteSearchDone == fn.f \in SiteSearches /\ fn.out.at = "resolved"

\* C38: what searchLinuxDo / searchZhiHu return is a list of at most limit
\* results; every one carries a URL with a scheme whose host is the site's
\* name, letter case aside, and has the site's name as its source; the list
\* is made of results the engine gave, otherwise unchanged and in the
\* engine's order; when the engine threw, the list is empty; and the call
\* never ends otherwise than by returning
C38_SiteSearchFiltersAndNeverThrows ==
    /\ fn.f \in SiteSearches => fn.out.at \in {"pending", "resolved"}
    /\ SiteSearchDone =>
          LET out == fn.out.results
              got == fn.out.got
              site == Site(fn.f)
          IN /\ Len(out) <= fn.in.limit
             /\ \A i \in 1..Len(out) :
                  /\ out[i].url.scheme # ""
                  /\ SameIgnoringCase(out[i].url.host, site)
                  /\ out[i].source = site
             /\ \E from \in [1..Len(out) -> 1..Len(got.results)] :
                  /\ \A i, j \in 1..Len(out) : i < j => from[i] < from[j]
                  /\ \A i \in 1..Len(out) :
                       out[i] = [got.results[from[i]] EXCEPT !.source = site]
             /\ ~got.ok => out = <<>>

\* searchLinuxDo with limit 1 was given three results: one of a host below
\* the site, then two of the site; it returned the first of the site's,
\* relabelled
C38_Witness ==
    /\ SiteSearchDone
    /\ fn.f = "searchLinuxDo"
    /\ fn.in.limit = 1
    /\ fn.out.got = Gave(<< Hit(Href("https://", <<"w", ".">> \o LinuxDo, "/")),
                            Hit(Href("https://", [LinuxDo EXCEPT ![1] = "L"], "/")),
                            Hit(Href("https://", LinuxDo, "/t/topic/1")) >>)
    /\ fn.out.results =
          << [Hit(Href("https://", [LinuxDo EXCEPT ![1] = "L"], "/"))
                 EXCEPT !.source = LinuxDo] >>

====
